---- MODULE Spec2Model ----
(***************************************************************************)
(* Model of the publish-event synchronisation pipeline of                  *)
(* script/sync_prod_to_gcp/submissions_to_gcp.py: decode_message,          *)
(* SubmissionFilesState (resolution of the expected file set),             *)
(* submission_message_to_file_state (artifact ensuring), sync_to_gcp       *)
(* (list, upload, trash) and submission_callback (ack / nack).             *)
(*                                                                         *)
(* Paths and object keys are sequences of tokens: the "/"-separated        *)
(* segments, with the file name split into its stem, its version suffix    *)
(* and its extension, so that "key starts with prefix" is "the token       *)
(* sequence starts with the prefix's tokens".                              *)
(***************************************************************************)
EXTENDS Integers, Sequences, FiniteSets, TLC

\* Python's None; an f-string renders it as the text "None".
None == "None"

\* Python truthiness of an optional string: None and "" are false.
Falsy(x) == x = None \/ x = ""

MinOf(S) == CHOOSE i \in S : \A j \in S : i <= j

RECURSIVE SeqToSet(_)
SeqToSet(s) == IF s = <<>> THEN {} ELSE {Head(s)} \cup SeqToSet(Tail(s))

IsPrefix(p, s) == Len(p) <= Len(s) /\ SubSeq(s, 1, Len(p)) = p

(***************************************************************************)
(* Imported names (sync_published_to_gcp, identifier).                     *)
(***************************************************************************)
FTP_PREFIX == <<"data", "ftp">>
ORIG_PREFIX == <<"data", "orig">>
PS_CACHE_PREFIX == <<"cache", "ps_cache">>

\* The parsed paper id: new-style ids of one month, unversioned.
Identifier(id) ==
    [ids |-> id, filename |-> id, yymm |-> "1208", is_old_id |-> FALSE,
     has_version |-> FALSE, archive |-> "arxiv"]

\* The value an entry carries when the code stores the method html_file
\* itself instead of its result.
BoundMethodHtmlFile == <<"<bound method SubmissionFilesState.html_file>">>

\* The legacy path to destination key rewrite: the root segment is dropped;
\* a value that is no path under a known root is refused.
path_to_bucket_key(cit) ==
    IF cit # <<>> /\ Head(cit) \in {"data", "cache"}
    THEN [err |-> "ok", key |-> Tail(cit)]
    ELSE [err |-> "ValueError", key |-> <<>>]

(***************************************************************************)
(* Message fields.                                                         *)
(***************************************************************************)
\* A version as the JSON payload carries it: an integer, a numeric string,
\* a number with a fraction (n + 0.5), a non-numeric text, or absent.
VersionValue(t, n) == [t |-> t, n |-> n]

\* Whether int(version) raises: a text that is no number, or None.
IntRaises(v) == v.t \notin {"int", "str", "float"}

\* int(version) where it does not raise; a fraction is cut towards zero.
IntOfVersion(v) ==
    CASE v.t = "float" -> IF v.n >= 0 THEN v.n ELSE v.n + 1
      [] OTHER -> v.n

\* str(version) as the f-strings render it.
StrOfVersion(v) ==
    CASE v.t = "int" -> ToString(v.n)
      [] v.t = "str" -> ToString(v.n)
      [] v.t = "float" -> ToString(v.n) \o ".5"
      [] v.t = "text" -> "abc"
      [] OTHER -> None

flag_to_source_format ==
    [c \in {"D", "H", "I", "O", "P", "X"} |->
        CASE c = "D" -> "pdftex"
          [] c = "H" -> "html"
          [] c = "I" -> "withdrawn"
          [] c = "O" -> "odf"
          [] c = "P" -> "ps"
          [] c = "X" -> "docx"]

\* src_ext_to_source_format, with the .gz entry's inner table applied to
\* the format found so far; an extension that is no key leaves it as it is.
src_ext_to_source_format(src_ext, source_format) ==
    CASE src_ext = ".html.gz" -> "html"
      [] src_ext = ".ps.gz" -> "ps"
      [] src_ext = ".pdf" -> "pdf"
      [] src_ext = ".gz" -> IF source_format = "pdftex" THEN "pdftex" ELSE "tex"
      [] src_ext = None -> "tex"
      [] OTHER -> source_format

submission_exts == <<".tar.gz", ".gz", ".pdf", ".html.gz">>

(***************************************************************************)
(* The legacy filesystem: a function from paths to file contents           *)
(* [tag, size]. The tag says what the readers of the file find in it.      *)
(***************************************************************************)
File(tag, size) == [tag |-> tag, size |-> size]

Exists(fs, path) == path \in DOMAIN fs

\* tarfile.open(...).getnames(): the member names; a file that is no
\* gzipped tar raises, which get_tgz_top_levels logs and leaves at {}.
TarNames(tag) ==
    CASE tag = "tar:removed" -> {"removed.txt"}
      [] tag = "tar:src" -> {"main.tex", "fig.eps"}
      [] OTHER -> {}

\* The .abs sidecar as maybe_update_metadata reads it: whether it has Date
\* lines, whether RE_DATE_COMPONENTS matches the last one, whether the
\* source_type group is a text (it is None when the "(NNkb,...)" part is
\* absent), and that text's characters.
AbsInfo(tag) ==
    LET info(dates, parsed, typed, source_type) ==
            [dates |-> dates, parsed |-> parsed, typed |-> typed,
             source_type |-> source_type]
    IN  CASE tag = "abs:nomatch" -> info(TRUE, FALSE, FALSE, <<>>)
          [] tag = "abs:nosize" -> info(TRUE, TRUE, FALSE, <<>>)
          [] tag = "abs:" -> info(TRUE, TRUE, TRUE, <<>>)
          [] tag = "abs:D" -> info(TRUE, TRUE, TRUE, <<"D">>)
          [] tag = "abs:H" -> info(TRUE, TRUE, TRUE, <<"H">>)
          [] tag = "abs:P" -> info(TRUE, TRUE, TRUE, <<"P">>)
          [] tag = "abs:I" -> info(TRUE, TRUE, TRUE, <<"I">>)
          [] tag = "abs:S" -> info(TRUE, TRUE, TRUE, <<"S">>)
          [] tag = "abs:AD" -> info(TRUE, TRUE, TRUE, <<"A", "D">>)
          [] OTHER -> info(FALSE, FALSE, FALSE, <<>>)

(***************************************************************************)
(* SubmissionFilesState.                                                   *)
(***************************************************************************)
\* __init__: the version check, the identifiers, the candidate extensions
\* and the previous version.
NewSubmissionFilesState(arxiv_id_str, version, publish_type, src_ext, source_format) ==
    IF IntRaises(version) THEN [err |-> "InvalidVersion"]
    ELSE IF IntOfVersion(version) <= 0 THEN [err |-> "InvalidVersion"]
    ELSE IF arxiv_id_str = None THEN [err |-> "IdentifierException"]
    ELSE IF version.t = "float" THEN [err |-> "IdentifierException"]
    ELSE [err |-> "ok",
          xid |-> Identifier(arxiv_id_str),
          version |-> StrOfVersion(version),
          publish_type |-> publish_type,
          src_ext |-> src_ext,
          source_format |-> source_format,
          ext_candidates |->
              IF Falsy(src_ext) THEN submission_exts
              ELSE <<src_ext>> \o
                   SelectSeq(submission_exts,
                             LAMBDA e : e = ".tar.gz" \/ e # src_ext),
          prev_version |->
              IF IntOfVersion(version) - 1 > 1 THEN IntOfVersion(version) - 1 ELSE 1,
          top_levels |-> {}]

\* An f-string appends the extension's text; the empty text appends nothing.
DotExt(dotext) == IF dotext = "" THEN <<>> ELSE <<dotext>>

latest_dir(st) == FTP_PREFIX \o <<st.xid.archive, "papers", st.xid.yymm>>

versioned_parent(st) == ORIG_PREFIX \o <<st.xid.archive, "papers", st.xid.yymm>>

source_path(st, dotext) == latest_dir(st) \o <<st.xid.filename>> \o DotExt(dotext)

gz_source(st) == latest_dir(st) \o <<st.xid.filename, ".gz">>

tgz_source(st) == latest_dir(st) \o <<st.xid.filename, ".tar.gz">>

\* A previous-version path that names the event's own version.
prev_source_path_same_version(st, dotext) ==
    versioned_parent(st) \o <<st.xid.filename, "v" \o st.version>> \o DotExt(dotext)

prev_source_path(st, dotext) ==
    versioned_parent(st)
        \o <<st.xid.filename, "v" \o ToString(st.prev_version)>> \o DotExt(dotext)

ps_cache_pdf_file(st) ==
    PS_CACHE_PREFIX
        \o <<st.xid.archive, "pdf", st.xid.yymm, st.xid.filename, "v" \o st.version, ".pdf">>

html_file(st) ==
    PS_CACHE_PREFIX
        \o <<st.xid.archive, "html", st.xid.yymm, st.xid.filename, "v" \o st.version, "/">>

\* get_tgz_top_levels: the cached names, or the names read from the tarball.
get_tgz_top_levels(st, fs) ==
    IF st.top_levels # {} THEN st.top_levels
    ELSE IF Exists(fs, tgz_source(st)) THEN TarNames(fs[tgz_source(st)].tag)
    ELSE {}

is_removed(st, fs) == "removed.txt" \in get_tgz_top_levels(st, fs)

\* An is_ignored that finds the marker in no file.
is_ignored_never(st, fs) == "no"

\* is_ignored: "yes", "no", or "raise" when the .gz cannot be read as
\* ASCII text.
is_ignored(st, fs) ==
    IF ~Exists(fs, gz_source(st)) THEN "no"
    ELSE CASE fs[gz_source(st)].tag = "gz:ignore" -> "yes"
           [] fs[gz_source(st)].tag = "gz:bad" -> "raise"
           [] OTHER -> "no"

\* The loop over the characters of the source-type code.
RECURSIVE ScanSourceFlags(_, _)
ScanSourceFlags(source_type, source_format) ==
    IF source_type = <<>> THEN [err |-> "ok", source_format |-> source_format]
    ELSE IF Head(source_type) \in DOMAIN flag_to_source_format
    THEN ScanSourceFlags(Tail(source_type), flag_to_source_format[Head(source_type)])
    ELSE IF Head(source_type) \in {"S", "A", "B"}
    THEN [err |-> "AttributeError", source_format |-> source_format]
    ELSE ScanSourceFlags(Tail(source_type), source_format)

\* A probe that goes through every candidate and keeps the last one found.
ProbeSrcExtLast(st, fs) ==
    LET hits == {n \in 1..Len(st.ext_candidates) :
                    Exists(fs, source_path(st, st.ext_candidates[n]))}
    IN  IF ~Falsy(st.src_ext) \/ hits = {} THEN st.src_ext
        ELSE st.ext_candidates[CHOOSE n \in hits : \A k \in hits : k <= n]

\* The src_ext probe of maybe_update_metadata, lines 305-310.
ProbeSrcExt(st, fs) ==
    LET hits == {n \in 1..Len(st.ext_candidates) :
                    Exists(fs, source_path(st, st.ext_candidates[n]))}
    IN  IF ~Falsy(st.src_ext) \/ hits = {} THEN st.src_ext
        ELSE st.ext_candidates[MinOf(hits)]

\* Lines 313-328: what the sidecar says; a missing sidecar has no dates.
ReadAbs(st, fs) ==
    IF Exists(fs, source_path(st, ".abs"))
    THEN AbsInfo(fs[source_path(st, ".abs")].tag)
    ELSE AbsInfo("missing")

\* Lines 330-340: [err, source_format] after the sidecar's code.
ScanAbs(info, source_format) ==
    IF ~(info.dates /\ info.parsed)
    THEN [err |-> "ok", source_format |-> source_format]
    ELSE IF ~info.typed
    THEN [err |-> "TypeError", source_format |-> source_format]
    ELSE ScanSourceFlags(info.source_type, source_format)

\* Lines 342-357: the format from the extension.
FormatOfExt(src_ext, source_format) ==
    IF src_ext = ".tar.gz"
    THEN IF Falsy(source_format) THEN "tex" ELSE source_format
    ELSE src_ext_to_source_format(src_ext, source_format)

\* Lines 312-357, given the probed extension and the scanned sidecar.
UpdateFormat(st, src_ext, scanned) ==
    IF ~Falsy(st.source_format)
    THEN [err |-> "ok", src_ext |-> src_ext, source_format |-> st.source_format]
    ELSE IF scanned.err # "ok"
    THEN [err |-> scanned.err, src_ext |-> src_ext,
          source_format |-> scanned.source_format]
    ELSE [err |-> "ok", src_ext |-> src_ext,
          source_format |-> FormatOfExt(src_ext, scanned.source_format)]

\* maybe_update_metadata: [err, src_ext, source_format].
maybe_update_metadata(st, fs) ==
    UpdateFormat(st, ProbeSrcExt(st, fs), ScanAbs(ReadAbs(st, fs), st.source_format))

Entry(t, cit, status) == [type |-> t, cit |-> cit, status |-> status]

\* is_tex_submission and is_html_submission, without their assertions.
is_tex_submission(st) == st.source_format \in {"tex", "pdftex"}

is_html_submission(st) == st.source_format = "html"

\* CacheFiles with "pdftex" forgotten in the list of is_tex_submission.
CacheFilesTexOnly(st) ==
    IF st.source_format = "tex"
    THEN <<Entry("pdf-cache", ps_cache_pdf_file(st), "current")>>
    ELSE IF is_html_submission(st)
    THEN <<Entry("html-cache", BoundMethodHtmlFile, "current")>>
    ELSE <<>>

\* Lines 414-417: the entry of the derived artifact.
CacheFiles(st) ==
    IF is_tex_submission(st)
    THEN <<Entry("pdf-cache", ps_cache_pdf_file(st), "current")>>
    ELSE IF is_html_submission(st)
    THEN <<Entry("html-cache", BoundMethodHtmlFile, "current")>>
    ELSE <<>>

\* Lines 412-417 with the assertions of lines 361-362, for the state that
\* maybe_update_metadata left.
LiveFiles(st) ==
    IF Falsy(st.src_ext) \/ Falsy(st.source_format)
    THEN [err |-> "AssertionError", st |-> st, files |-> <<>>]
    ELSE [err |-> "ok", st |-> st,
          files |-> <<Entry("abstract", source_path(st, ".abs"), "current"),
                      Entry("submission", source_path(st, st.src_ext), "current")>>
                    \o CacheFiles(st)]

\* Lines 411-417: a live submission.
Live(st, m) ==
    IF m.err # "ok" THEN [err |-> m.err, st |-> st, files |-> <<>>]
    ELSE LiveFiles([st EXCEPT !.src_ext = m.src_ext,
                              !.source_format = m.source_format])

\* Lines 406-417: a submission that is not removed.
NotRemoved(st, fs, ignored) ==
    IF ignored = "raise" THEN [err |-> "OSError", st |-> st, files |-> <<>>]
    ELSE IF ignored = "yes"
    THEN [err |-> "ok", st |-> st,
          files |-> <<Entry("abstract", source_path(st, ".abs"), "current"),
                      Entry("submission", gz_source(st), "current")>>]
    ELSE Live(st, maybe_update_metadata(st, fs))

\* A classification that looks at the ignore marker before the tarball.
ClassifiedIgnoredFirst(st, fs) ==
    IF is_ignored(st, fs) # "no" THEN NotRemoved(st, fs, is_ignored(st, fs))
    ELSE IF is_removed(st, fs)
    THEN [err |-> "ok", st |-> st,
          files |-> <<Entry("abstract", source_path(st, ".abs"), "current"),
                      Entry("submission", tgz_source(st), "current")>>]
    ELSE NotRemoved(st, fs, "no")

\* Lines 401-417, for the state with the tarball's names read.
Classified(st, fs) ==
    IF is_removed(st, fs)
    THEN [err |-> "ok", st |-> st,
          files |-> <<Entry("abstract", source_path(st, ".abs"), "current"),
                      Entry("submission", tgz_source(st), "current")>>]
    ELSE NotRemoved(st, fs, is_ignored(st, fs))

\* get_expected_files, lines 401-418: the current entries, with the state
\* as the calls left it: [err, files, st].
CurrentFiles(st, fs) ==
    Classified([st EXCEPT !.top_levels = get_tgz_top_levels(st, fs)], fs)

\* Lines 427-433: the extension of the previous version's source.
PrevDotExt(st, fs) ==
    LET hits == {n \in 1..Len(submission_exts) :
                    Exists(fs, prev_source_path(st, submission_exts[n]))}
    IN  IF hits = {} THEN st.src_ext ELSE submission_exts[MinOf(hits)]

\* Entries of the previous version for every publish type.
ObsoleteFilesAlways(st, fs) ==
    <<Entry("abstract", prev_source_path(st, ".abs"), "obsolete"),
      Entry("submission", prev_source_path(st, PrevDotExt(st, fs)), "obsolete")>>

\* get_expected_files, lines 421-433: the entries of the previous version.
ObsoleteFiles(st, fs) ==
    IF st.publish_type \in {"rep", "wdr"}
    THEN <<Entry("abstract", prev_source_path(st, ".abs"), "obsolete"),
           Entry("submission", prev_source_path(st, PrevDotExt(st, fs)), "obsolete")>>
    ELSE <<>>

\* Lines 435-436: every entry gets its destination key.
WithKeys(st, files) ==
    IF \E n \in 1..Len(files) : path_to_bucket_key(files[n].cit).err # "ok"
    THEN [err |-> "ValueError", st |-> st, files |-> <<>>]
    ELSE [err |-> "ok", st |-> st,
          files |-> [n \in 1..Len(files) |->
                        [type |-> files[n].type, cit |-> files[n].cit,
                         status |-> files[n].status,
                         gcp |-> path_to_bucket_key(files[n].cit).key]]]

\* A file set with the previous version's entries in front.
AllFilesObsoleteFirst(cur, fs) ==
    IF cur.err # "ok" THEN [err |-> cur.err, st |-> cur.st, files |-> <<>>]
    ELSE WithKeys(cur.st, ObsoleteFiles(cur.st, fs) \o cur.files)

\* Lines 421-438, given the current entries.
AllFiles(cur, fs) ==
    IF cur.err # "ok" THEN [err |-> cur.err, st |-> cur.st, files |-> <<>>]
    ELSE WithKeys(cur.st, cur.files \o ObsoleteFiles(cur.st, fs))

\* get_expected_files: [err, files, st], every entry of files with its
\* destination key gcp.
get_expected_files(st, fs) == AllFiles(CurrentFiles(st, fs), fs)

(***************************************************************************)
(* The consumer: broker, object store, worker hosts and handlers.          *)
(***************************************************************************)
\* The hosts of CONCURRENCY_PER_WEBNODE, in list order.
CONCURRENCY_PER_WEBNODE == <<"web1", "web2", "web3">>

n_webnodes == Len(CONCURRENCY_PER_WEBNODE)

\* How often the broker delivers one message before the model stops it.
MaxDeliveries == 2

\* How many store operations fail for good (the client's retries exhausted).
MaxFailures == 1

Workers == {1, 2}

Msgs == {1, 2}

VARIABLES
    fs,                     \* the legacy filesystem: path -> [tag, size]
    bucket,                 \* the object store: key -> [tag, size]
    payload,                \* message -> the payload published
    status,                 \* message -> "pending" | "leased" | "acked"
    deliveries,             \* message -> times handed to a handler
    WEBNODE_REQUEST_COUNT,  \* the global round-robin counter
    requests,               \* per host: generation requests received
    rendering,              \* artifacts a host was asked for, not yet there
    failures,               \* store operations that failed so far
    synced,                 \* the last reconciliation that was acked
    main,                   \* the main thread: running flag, position, future
    http,                   \* the web application: a request and its response
    listing,                \* the listing service: a call and its outcome
    h                       \* worker -> the handler's frame

vars == <<fs, bucket, payload, status, deliveries, WEBNODE_REQUEST_COUNT,
          requests, rendering, failures, synced, main, http, listing, h>>

\* The web application with no request at hand.
NoRequest == [state |-> "none"]

\* The listing service with no call at hand.
NoListing == [state |-> "none"]

\* The main thread in the loop of submission_pull_messages, with the
\* module's running flag and the streaming pull open.
MainStart ==
    [running |-> TRUE, pc |-> "loop", future |-> "streaming", exit |-> "none"]

\* A handler's frame before and between messages.
IdleFrame ==
    [pc |-> "idle", msg |-> 0, outcome |-> "none", acks |-> 0, nacks |-> 0,
     err |-> "none", data |-> [kind |-> "none"], st |-> [err |-> "none"],
     my_tag |-> 0, tmp |-> 0, ensured |-> <<>>, checked |-> <<>>,
     desired |-> <<>>, i |-> 0,
     bucket_objects |-> <<>>, todo |-> <<>>, before |-> <<>>, uploaded |-> {},
     transferred |-> {}, renamed |-> {}, sent |-> 0, stages |-> {}]

\* The frame when the handler has returned.
Returned(f, outcome, err) ==
    [f EXCEPT !.pc = "idle", !.outcome = outcome, !.err = err,
              !.acks = IF outcome = "acked" THEN @ + 1 ELSE @,
              !.nacks = IF outcome = "nacked" THEN @ + 1 ELSE @]

\* A loop body that leaves the listing as it is.
RemoveNothing(seq, x) == seq

\* Lines 650-651: bucket_objects.remove(entry["gcp"]) when it is listed.
RECURSIVE RemoveFirst(_, _)
RemoveFirst(seq, x) ==
    IF seq = <<>> THEN <<>>
    ELSE IF Head(seq) = x THEN Tail(seq)
    ELSE <<Head(seq)>> \o RemoveFirst(Tail(seq), x)

\* The order in which the store lists the names that start with a paper's
\* prefix: by the text that follows the prefix.
ListOrder == <<"", ".abs", ".gz", ".html.gz", ".pdf", ".ps.gz", ".tar.gz", None>>

\* A listing that finds no object.
list_bucket_objects_none(store, prefix) == <<>>

\* list_bucket_objects: the keys that start with the prefix, in the
\* store's order.
list_bucket_objects(store, prefix) ==
    SelectSeq([n \in 1..Len(ListOrder) |-> prefix \o DotExt(ListOrder[n])],
              LAMBDA key : key \in DOMAIN store)

\* upload: nothing is transferred when the destination holds an object of
\* the local file's size; a missing local file raises.
upload(store, files, local, remote) ==
    IF ~Exists(files, local)
    THEN [err |-> "FileNotFoundError", store |-> store, transferred |-> FALSE]
    ELSE IF remote \in DOMAIN store /\ store[remote].size = files[local].size
    THEN [err |-> "ok", store |-> store, transferred |-> FALSE]
    ELSE [err |-> "ok", transferred |-> TRUE,
          store |-> [k \in DOMAIN store \cup {remote} |->
                        IF k = remote THEN files[local] ELSE store[k]]]

\* The key an object is renamed to by trash_bucket_objects.
trashed_blob(obj) == <<"trash">> \o obj

\* A rename that deletes the old name and writes nothing.
rename_blob_delete_only(store, obj, new_name) ==
    [k \in DOMAIN store \ {obj} |-> store[k]]

\* A rename that copies to the new name and leaves the old name in place.
rename_blob_copy_only(store, obj, new_name) ==
    [k \in DOMAIN store \cup {new_name} |->
        IF k = new_name THEN store[obj] ELSE store[k]]

\* bucket.rename_blob: copy to the new name (replacing what is there),
\* then delete the old name.
rename_blob(store, obj, new_name) ==
    [k \in (DOMAIN store \ {obj}) \cup {new_name} |->
        IF k = new_name THEN store[obj] ELSE store[k]]

\* Nack with the except clauses calling message.ack() instead.
AckOnError(w, err) ==
    /\ h' = [h EXCEPT ![w] = Returned(@, "acked", err)]
    /\ status' = [status EXCEPT ![h[w].msg] = "acked"]

\* An except clause that lets the error leave the callback.
RaiseOnError(w, err) ==
    /\ h' = [h EXCEPT ![w] = Returned(@, "raised", err)]
    /\ UNCHANGED status

\* message.nack() followed by return, lines 586-587, 604-605, 609-610,
\* 616-617 and 627.
Nack(w, err) ==
    /\ h' = [h EXCEPT ![w] = Returned(@, "nacked", err)]
    /\ status' = [status EXCEPT ![h[w].msg] = "pending"]

(***************************************************************************)
(* The broker.                                                             *)
(***************************************************************************)
\* The subscriber hands a pending message to submission_callback.
Pull(w, m) ==
    /\ main.future = "streaming"
    /\ h[w].pc = "idle"
    /\ status[m] = "pending"
    /\ deliveries[m] < MaxDeliveries
    /\ status' = [status EXCEPT ![m] = "leased"]
    /\ deliveries' = [deliveries EXCEPT ![m] = @ + 1]
    /\ h' = [h EXCEPT ![w] = [IdleFrame EXCEPT !.pc = "decode", !.msg = m]]
    /\ UNCHANGED <<listing, http, main, fs, bucket, payload, WEBNODE_REQUEST_COUNT, requests,
                   rendering, failures, synced>>

\* A message whose handler returned without ack or nack is redelivered
\* when its lease runs out.
LeaseExpires(m) ==
    /\ status[m] = "leased"
    /\ \A w \in Workers : ~(h[w].msg = m /\ h[w].pc # "idle")
    /\ status' = [status EXCEPT ![m] = "pending"]
    /\ UNCHANGED <<listing, http, main, fs, bucket, payload, deliveries, WEBNODE_REQUEST_COUNT,
                   requests, rendering, failures, synced, h>>

(***************************************************************************)
(* submission_callback, lines 584-597.                                     *)
(***************************************************************************)
\* decode_message returns None: not UTF-8, not JSON, or the JSON null.
DecodeMalformed(w) ==
    /\ h[w].pc = "decode"
    /\ payload[h[w].msg].kind \in {"bad_utf8", "bad_json", "null"}
    /\ Nack(w, "MalformedMessage")
    /\ UNCHANGED <<listing, http, main, fs, bucket, payload, deliveries, WEBNODE_REQUEST_COUNT,
                   requests, rendering, failures, synced>>

\* decode_message returns a JSON value that is no object: data.get raises
\* outside every try, and the handler returns without ack or nack.
DecodeNonObject(w) ==
    /\ h[w].pc = "decode"
    /\ payload[h[w].msg].kind = "nonobject"
    /\ h' = [h EXCEPT ![w] = Returned(@, "raised", "AttributeError")]
    /\ UNCHANGED <<listing, http, main, fs, bucket, payload, status, deliveries,
                   WEBNODE_REQUEST_COUNT, requests, rendering, failures, synced>>

DecodeObject(w) ==
    /\ h[w].pc = "decode"
    /\ payload[h[w].msg].kind = "object"
    /\ h' = [h EXCEPT ![w].pc = "resolve", ![w].data = payload[h[w].msg],
                       ![w].stages = @ \cup {"decode"}]
    /\ UNCHANGED <<listing, http, main, fs, bucket, payload, status, deliveries,
                   WEBNODE_REQUEST_COUNT, requests, rendering, failures, synced>>

(***************************************************************************)
(* submission_message_to_file_state.                                       *)
(***************************************************************************)
\* Lines 477-491: the counter is read into my_tag, the state is built and
\* the expected files are computed for the artifact check.
ResolveFiles(w, r) ==
    IF r.err # "ok" THEN Nack(w, r.err)
    ELSE /\ h' = [h EXCEPT ![w].pc = "ensure", ![w].st = r.st,
                           ![w].my_tag = WEBNODE_REQUEST_COUNT,
                           ![w].ensured = r.files,
                           ![w].stages = @ \cup {"resolve"}]
         /\ UNCHANGED status

ResolveState(w, new) ==
    IF new.err # "ok" THEN Nack(w, new.err)
    ELSE ResolveFiles(w, get_expected_files(new, fs))

Resolve(w) ==
    /\ h[w].pc = "resolve"
    /\ ResolveState(w, NewSubmissionFilesState(
                           h[w].data.paper_id, h[w].data.version, h[w].data.type,
                           h[w].data.src_ext, h[w].data.source_format))
    /\ UNCHANGED <<listing, http, main, fs, bucket, payload, deliveries, WEBNODE_REQUEST_COUNT,
                   requests, rendering, failures, synced>>

\* The entries of a file set that name a derived artifact.
CacheEntries(files) ==
    {n \in 1..Len(files) : files[n].type \in {"pdf-cache", "html-cache"}}

\* An artifact check that asks a host whenever an artifact is needed.
EnsureCheckAlwaysAsks(w) ==
    /\ h[w].pc = "ensure"
    /\ IF CacheEntries(h[w].ensured) = {}
       THEN h' = [h EXCEPT ![w].pc = "expect", ![w].stages = @ \cup {"ensure"}]
       ELSE h' = [h EXCEPT ![w].pc = "read_count"]
    /\ UNCHANGED <<listing, http, main, fs, bucket, payload, status, deliveries,
                   WEBNODE_REQUEST_COUNT, requests, rendering, failures, synced>>

\* Lines 492-496 and 513-515: the artifact is there, or none is needed.
EnsureCheck(w) ==
    /\ h[w].pc = "ensure"
    /\ IF \/ CacheEntries(h[w].ensured) = {}
          \/ Exists(fs, h[w].ensured[MinOf(CacheEntries(h[w].ensured))].cit)
       THEN h' = [h EXCEPT ![w].pc = "expect", ![w].stages = @ \cup {"ensure"}]
       ELSE h' = [h EXCEPT ![w].pc = "read_count"]
    /\ UNCHANGED <<listing, http, main, fs, bucket, payload, status, deliveries,
                   WEBNODE_REQUEST_COUNT, requests, rendering, failures, synced>>

\* Line 498, first half: the global is loaded.
ReadCount(w) ==
    /\ h[w].pc = "read_count"
    /\ h' = [h EXCEPT ![w].pc = "write_count", ![w].tmp = WEBNODE_REQUEST_COUNT]
    /\ UNCHANGED <<listing, http, main, fs, bucket, payload, status, deliveries,
                   WEBNODE_REQUEST_COUNT, requests, rendering, failures, synced>>

\* A selection that always takes the first host of the list.
SelectedHostFirst(my_tag) == CONCURRENCY_PER_WEBNODE[1]

\* The host of line 499: the index is my_tag, clamped to the list.
SelectedHost(my_tag) ==
    LET hi == n_webnodes - 1
        lo == IF my_tag > 0 THEN my_tag ELSE 0
    IN  CONCURRENCY_PER_WEBNODE[(IF lo < hi THEN lo ELSE hi) + 1]

\* Lines 498-503: the global is stored and the request is sent.
WriteCount(w) ==
    /\ h[w].pc = "write_count"
    /\ WEBNODE_REQUEST_COUNT' = (h[w].tmp + 1) % n_webnodes
    /\ requests' = Append(requests, SelectedHost(h[w].my_tag))
    /\ rendering' = rendering \cup {h[w].ensured[MinOf(CacheEntries(h[w].ensured))].cit}
    /\ h' = [h EXCEPT ![w].pc = "call", ![w].sent = @ + 1]
    /\ UNCHANGED <<listing, http, main, fs, bucket, payload, status, deliveries, failures, synced>>

\* ensure_pdf / ensure_html returns.
CallReturns(w) ==
    /\ h[w].pc = "call"
    /\ h' = [h EXCEPT ![w].pc = "postcheck"]
    /\ UNCHANGED <<listing, http, main, fs, bucket, payload, status, deliveries,
                   WEBNODE_REQUEST_COUNT, requests, rendering, failures, synced>>

\* ensure_pdf / ensure_html raises (transport error, timeout): lines
\* 504-507 log and re-raise, and the handler's last except clause nacks.
CallRaises(w) ==
    /\ h[w].pc = "call"
    /\ Nack(w, "RequestException")
    /\ UNCHANGED <<listing, http, main, fs, bucket, payload, deliveries, WEBNODE_REQUEST_COUNT,
                   requests, rendering, failures, synced>>

\* A check after the request that asks a host again while the artifact
\* is missing.
PostCheckRetries(w) ==
    /\ h[w].pc = "postcheck"
    /\ IF Exists(fs, h[w].ensured[MinOf(CacheEntries(h[w].ensured))].cit)
       THEN h' = [h EXCEPT ![w].pc = "expect", ![w].stages = @ \cup {"ensure"}]
       ELSE h' = [h EXCEPT ![w].pc = "read_count"]
    /\ UNCHANGED <<listing, http, main, fs, bucket, payload, status, deliveries, WEBNODE_REQUEST_COUNT,
                   requests, rendering, failures, synced>>

\* A check after the request that goes on without the artifact.
PostCheckIgnoresMissing(w) ==
    /\ h[w].pc = "postcheck"
    /\ IF Exists(fs, h[w].ensured[MinOf(CacheEntries(h[w].ensured))].cit)
       THEN h' = [h EXCEPT ![w].pc = "expect", ![w].stages = @ \cup {"ensure"}]
       ELSE h' = [h EXCEPT ![w].pc = "expect"]
    /\ UNCHANGED <<listing, http, main, fs, bucket, payload, status, deliveries, WEBNODE_REQUEST_COUNT,
                   requests, rendering, failures, synced>>

\* Lines 509-510 and 528-529: the check after the request.
PostCheck(w) ==
    /\ h[w].pc = "postcheck"
    /\ IF Exists(fs, h[w].ensured[MinOf(CacheEntries(h[w].ensured))].cit)
       THEN /\ h' = [h EXCEPT ![w].pc = "expect", ![w].stages = @ \cup {"ensure"}]
            /\ UNCHANGED status
       ELSE Nack(w, "MissingGeneratedFile")
    /\ UNCHANGED <<listing, http, main, fs, bucket, payload, deliveries, WEBNODE_REQUEST_COUNT,
                   requests, rendering, failures, synced>>

\* A worker host finishes rendering an artifact it was asked for.
Render(path) ==
    /\ path \in rendering
    /\ rendering' = rendering \ {path}
    /\ fs' = [q \in DOMAIN fs \cup {path} |->
                 IF q = path THEN File("pdf", 1) ELSE fs[q]]
    /\ UNCHANGED <<listing, http, main, bucket, payload, status, deliveries, WEBNODE_REQUEST_COUNT,
                   requests, failures, h, synced>>

(***************************************************************************)
(* submission_callback, lines 599-628, and sync_to_gcp.                    *)
(***************************************************************************)
\* Lines 601-605: the expected files are computed again and checked for
\* emptiness.
ExpectFiles(w, r) ==
    IF r.err # "ok" THEN Nack(w, r.err)
    ELSE IF r.files = <<>> THEN Nack(w, "NoFiles")
    ELSE /\ h' = [h EXCEPT ![w].pc = "sync", ![w].st = r.st,
                           ![w].checked = r.files]
         /\ UNCHANGED status

Expect(w) ==
    /\ h[w].pc = "expect"
    /\ ExpectFiles(w, get_expected_files(h[w].st, fs))
    /\ UNCHANGED <<listing, http, main, fs, bucket, payload, deliveries, WEBNODE_REQUEST_COUNT,
                   requests, rendering, failures, synced>>

\* The prefix sync_to_gcp lists: the key of source_path("").
ListedPrefix(st) == path_to_bucket_key(source_path(st, "")).key

\* Lines 632-641: the expected files are computed a third time and the
\* objects under the paper's prefix are listed.
SyncListFiles(w, r, objects) ==
    IF r.err # "ok" THEN Nack(w, r.err)
    ELSE /\ h' = [h EXCEPT ![w].pc = "upload", ![w].st = r.st,
                           ![w].desired = r.files, ![w].i = 1,
                           ![w].bucket_objects = objects,
                           ![w].before = bucket,
                           ![w].stages = @ \cup {"list"}]
         /\ UNCHANGED status

SyncList(w) ==
    /\ h[w].pc = "sync"
    /\ SyncListFiles(w, get_expected_files(h[w].st, fs),
                     list_bucket_objects(bucket, ListedPrefix(h[w].st)))
    /\ UNCHANGED <<listing, http, main, fs, bucket, payload, deliveries, WEBNODE_REQUEST_COUNT,
                   requests, rendering, failures, synced>>

\* A store operation fails for good: the exception leaves sync_to_gcp and
\* lines 625-627 nack.
StoreFails(w) ==
    /\ h[w].pc \in {"sync", "upload", "trash"}
    /\ failures < MaxFailures
    /\ failures' = failures + 1
    /\ Nack(w, "StorageError")
    /\ UNCHANGED <<listing, http, main, fs, bucket, payload, deliveries, WEBNODE_REQUEST_COUNT,
                   requests, rendering, synced>>

\* Where sync_to_gcp goes when the upload loop is over.
AfterUploads(objects) == IF objects # <<>> THEN "trash" ELSE "ack"

\* Lines 644-651: one turn of the upload loop.
Uploaded(w, entry, up, objects, last) ==
    IF up.err # "ok"
    THEN /\ Nack(w, up.err)
         /\ UNCHANGED bucket
    ELSE /\ bucket' = up.store
         /\ h' = [h EXCEPT
                ![w].pc = IF last THEN AfterUploads(objects) ELSE "upload",
                ![w].i = @ + 1,
                ![w].bucket_objects = objects,
                ![w].todo = IF last THEN objects ELSE <<>>,
                ![w].uploaded = @ \cup {entry.gcp},
                ![w].transferred = IF up.transferred THEN @ \cup {entry.gcp} ELSE @,
                ![w].stages = IF last THEN @ \cup {"uploads"} ELSE @]
         /\ UNCHANGED status

UploadEntry(w, entry) ==
    Uploaded(w, entry, upload(bucket, fs, entry.cit, entry.gcp),
             RemoveFirst(h[w].bucket_objects, entry.gcp),
             h[w].i = Len(h[w].desired))

Upload(w) ==
    /\ h[w].pc = "upload"
    /\ UploadEntry(w, h[w].desired[h[w].i])
    /\ UNCHANGED <<listing, http, main, fs, payload, deliveries, WEBNODE_REQUEST_COUNT, requests,
                   rendering, failures, synced>>

\* Lines 567-571: one turn of the loop of trash_bucket_objects; renaming
\* an object that is not there raises NotFound.
TrashObject(w, obj) ==
    IF obj \notin DOMAIN bucket
    THEN /\ Nack(w, "NotFound")
         /\ UNCHANGED bucket
    ELSE /\ bucket' = rename_blob(bucket, obj, trashed_blob(obj))
         /\ h' = [h EXCEPT
                ![w].pc = IF Tail(h[w].todo) = <<>> THEN "ack" ELSE "trash",
                ![w].todo = Tail(@),
                ![w].renamed = @ \cup {obj},
                ![w].stages = IF Tail(h[w].todo) = <<>> THEN @ \cup {"trash"} ELSE @]
         /\ UNCHANGED status

Trash(w) ==
    /\ h[w].pc = "trash"
    /\ TrashObject(w, Head(h[w].todo))
    /\ UNCHANGED <<listing, http, main, fs, payload, deliveries, WEBNODE_REQUEST_COUNT, requests,
                   rendering, failures, synced>>

\* STORAGE_RETRY on trash_bucket_objects: after a transient error the
\* whole function runs again, from the first object of its list.
TrashRetry(w) ==
    /\ h[w].pc = "trash"
    /\ failures < MaxFailures
    /\ failures' = failures + 1
    /\ h' = [h EXCEPT ![w].todo = h[w].bucket_objects]
    /\ UNCHANGED <<listing, http, main, fs, bucket, payload, status, deliveries,
                   WEBNODE_REQUEST_COUNT, requests, rendering, synced>>

\* Line 621: sync_to_gcp has returned.
Ack(w) ==
    /\ h[w].pc = "ack"
    /\ h' = [h EXCEPT ![w] = Returned(@, "acked", "none")]
    /\ status' = [status EXCEPT ![h[w].msg] = "acked"]
    /\ synced' = [desired |-> h[w].desired, store |-> bucket, files |-> fs]
    /\ UNCHANGED <<listing, http, main, fs, bucket, payload, deliveries, WEBNODE_REQUEST_COUNT,
                   requests, rendering, failures>>

\* One step of the handler that runs on worker w.
Handler(w) ==
    \/ DecodeMalformed(w)
    \/ DecodeNonObject(w)
    \/ DecodeObject(w)
    \/ Resolve(w)
    \/ EnsureCheck(w)
    \/ ReadCount(w)
    \/ WriteCount(w)
    \/ CallReturns(w)
    \/ CallRaises(w)
    \/ PostCheck(w)
    \/ Expect(w)
    \/ SyncList(w)
    \/ StoreFails(w)
    \/ Upload(w)
    \/ Trash(w)
    \/ TrashRetry(w)
    \/ Ack(w)

(***************************************************************************)
(* The inputs: payloads, legacy files and objects of paper 1208.9998.      *)
(***************************************************************************)
Event(type, paper_id, version, src_ext, source_format) ==
    [kind |-> "object", type |-> type, paper_id |-> paper_id,
     version |-> version, src_ext |-> src_ext, source_format |-> source_format]

FtpPath(id, dotext) == FTP_PREFIX \o <<"arxiv", "papers", "1208", id>> \o DotExt(dotext)

OrigPath(id, v, dotext) ==
    ORIG_PREFIX \o <<"arxiv", "papers", "1208", id, "v" \o ToString(v)>> \o DotExt(dotext)

PdfCachePath(id, v) ==
    PS_CACHE_PREFIX \o <<"arxiv", "pdf", "1208", id, "v" \o ToString(v), ".pdf">>

\* A function from a set of <<path, content>> pairs.
Files(pairs) ==
    [q \in {pr[1] : pr \in pairs} |-> (CHOOSE pr \in pairs : pr[1] = q)[2]]

Paper == "1208.9998"

OtherPaper == "1208.9999"

\* Version 2 of the paper is the latest, with a tarball and a PDF beside
\* it (the hand-made case the comment of get_expected_files describes);
\* version 1 is in orig.
LegacyFiles ==
    Files({<<FtpPath(Paper, ".abs"), File("abs:", 1)>>,
           <<FtpPath(Paper, ".tar.gz"), File("tar:src", 2)>>,
           <<FtpPath(Paper, ".pdf"), File("pdf", 3)>>,
           <<OrigPath(Paper, 1, ".abs"), File("abs:", 1)>>,
           <<OrigPath(Paper, 1, ".tar.gz"), File("tar:src", 1)>>})

\* The same with the rendered PDF of version 2 in the cache.
LegacyFilesRendered ==
    Files({<<q, LegacyFiles[q]>> : q \in DOMAIN LegacyFiles}
          \cup {<<PdfCachePath(Paper, 2), File("pdf", 1)>>})

FsPool == {LegacyFiles, LegacyFilesRendered}

\* Objects an earlier sync left behind: an outdated abstract, sources the
\* paper no longer has, an outdated object of version 1 and an object of
\* another paper.
StaleObjects ==
    Files({<<Tail(FtpPath(Paper, ".abs")), File("abs:", 7)>>,
           <<Tail(FtpPath(Paper, ".pdf")), File("pdf", 8)>>,
           <<Tail(FtpPath(Paper, ".ps.gz")), File("ps", 9)>>,
           <<Tail(OrigPath(Paper, 1, ".ps.gz")), File("ps", 9)>>,
           <<Tail(FtpPath(OtherPaper, ".abs")), File("abs:", 1)>>})

BucketPool == {<<>>, StaleObjects}

RepTex == Event("rep", Paper, VersionValue("int", 2), ".tar.gz", "tex")

RepPdf == Event("rep", Paper, VersionValue("int", 2), ".pdf", "pdf")

NewHtml == Event("new", Paper, VersionValue("int", 2), ".html.gz", "html")

\* The event that announced version 1, a PDF-only submission.
NewPdf == Event("new", Paper, VersionValue("int", 1), ".pdf", "pdf")

PayloadPool ==
    {[kind |-> "bad_utf8"], [kind |-> "bad_json"], [kind |-> "null"],
     [kind |-> "nonobject"], RepTex, RepPdf, NewHtml, NewPdf,
     Event("new", Paper, VersionValue("int", 0), ".pdf", "pdf"),
     Event("new", Paper, VersionValue("float", 1), ".pdf", "pdf")}

Init ==
    /\ fs \in FsPool
    /\ bucket \in BucketPool
    /\ payload \in [Msgs -> PayloadPool]
    /\ status = [m \in Msgs |-> "pending"]
    /\ deliveries = [m \in Msgs |-> 0]
    /\ WEBNODE_REQUEST_COUNT = 0
    /\ requests = <<>>
    /\ rendering = {}
    /\ failures = 0
    /\ synced = [desired |-> <<>>, store |-> <<>>, files |-> <<>>]
    /\ main = MainStart
    /\ http = NoRequest
    /\ listing = NoListing
    /\ h = [w \in Workers |-> IdleFrame]

\* One consumer thread handles the messages one after the other.
Next ==
    \/ \E m \in Msgs : Pull(1, m)
    \/ \E m \in Msgs : LeaseExpires(m)
    \/ Handler(1)
    \/ \E path \in rendering : Render(path)

Spec == Init /\ [][Next]_vars

(***************************************************************************)
(* Two consumer threads and duplicate deliveries of one event; the store   *)
(* serves the copy and the delete of a rename as two requests.             *)
(***************************************************************************)
\* A copy that writes nothing.
copy_blob_nothing(store, obj, new_name) == store

\* The copy of bucket.rename_blob: the new name gets the object, replacing
\* what is there.
copy_blob(store, obj, new_name) ==
    [k \in DOMAIN store \cup {new_name} |->
        IF k = new_name THEN store[obj] ELSE store[k]]

\* The delete of bucket.rename_blob.
delete_blob(store, obj) == [k \in DOMAIN store \ {obj} |-> store[k]]

\* Line 569, first request: copying an object that is not there raises
\* NotFound.
TrashCopyObject(w, obj) ==
    IF obj \notin DOMAIN bucket
    THEN /\ Nack(w, "NotFound")
         /\ UNCHANGED bucket
    ELSE /\ bucket' = copy_blob(bucket, obj, trashed_blob(obj))
         /\ h' = [h EXCEPT ![w].pc = "trash_delete"]
         /\ UNCHANGED status

TrashCopy(w) ==
    /\ h[w].pc = "trash"
    /\ TrashCopyObject(w, Head(h[w].todo))
    /\ UNCHANGED <<listing, http, main, fs, payload, deliveries,
                   WEBNODE_REQUEST_COUNT, requests, rendering, failures, synced>>

\* Line 569, second request: deleting an object that is not there raises
\* NotFound; otherwise the loop goes to its next object.
TrashDeleteObject(w, obj) ==
    IF obj \notin DOMAIN bucket
    THEN /\ Nack(w, "NotFound")
         /\ UNCHANGED bucket
    ELSE /\ bucket' = delete_blob(bucket, obj)
         /\ h' = [h EXCEPT
                ![w].pc = IF Tail(h[w].todo) = <<>> THEN "ack" ELSE "trash",
                ![w].todo = Tail(@),
                ![w].renamed = @ \cup {obj},
                ![w].stages = IF Tail(h[w].todo) = <<>> THEN @ \cup {"trash"} ELSE @]
         /\ UNCHANGED status

TrashDelete(w) ==
    /\ h[w].pc = "trash_delete"
    /\ TrashDeleteObject(w, Head(h[w].todo))
    /\ UNCHANGED <<listing, http, main, fs, payload, deliveries,
                   WEBNODE_REQUEST_COUNT, requests, rendering, failures, synced>>

\* The store before the event: objects an earlier sync left behind.
DuplicateStore == StaleObjects

\* The event is delivered twice; its artifact is in the cache.
InitDuplicate ==
    /\ fs = LegacyFilesRendered
    /\ bucket = DuplicateStore
    /\ payload = [m \in Msgs |-> RepTex]
    /\ status = [m \in Msgs |-> "pending"]
    /\ deliveries = [m \in Msgs |-> 0]
    /\ WEBNODE_REQUEST_COUNT = 0
    /\ requests = <<>>
    /\ rendering = {}
    /\ failures = 0
    /\ synced = [desired |-> <<>>, store |-> <<>>, files |-> <<>>]
    /\ main = MainStart
    /\ http = NoRequest
    /\ listing = NoListing
    /\ h = [w \in Workers |-> IdleFrame]

\* Each worker thread takes its delivery, again after a nack, and runs the
\* handler; the threads interleave between any two steps.
NextDuplicate ==
    \/ \E w \in Workers : Pull(w, w)
    \/ \E w \in Workers : DecodeObject(w)
    \/ \E w \in Workers : Resolve(w)
    \/ \E w \in Workers : EnsureCheck(w)
    \/ \E w \in Workers : Expect(w)
    \/ \E w \in Workers : SyncList(w)
    \/ \E w \in Workers : StoreFails(w)
    \/ \E w \in Workers : Upload(w)
    \/ \E w \in Workers : TrashCopy(w)
    \/ \E w \in Workers : TrashDelete(w)
    \/ \E w \in Workers : TrashRetry(w)
    \/ \E w \in Workers : Ack(w)

SpecDuplicate == InitDuplicate /\ [][NextDuplicate]_vars

(***************************************************************************)
(* The same consumer while the legacy system goes on writing its files.    *)
(***************************************************************************)
\* The file the legacy system takes away while events are processed: the
\* source of version 1.
LegacyVolatile == {OrigPath(Paper, 1, ".tar.gz")}

\* The legacy system removes a file that get_expected_files reads.
LegacyRemoves(path) ==
    /\ path \in DOMAIN fs
    /\ fs' = [q \in DOMAIN fs \ {path} |-> fs[q]]
    /\ UNCHANGED <<listing, http, main, bucket, payload, status, deliveries,
                   WEBNODE_REQUEST_COUNT, requests, rendering, failures, h, synced>>

NextLegacy ==
    \/ \E m \in Msgs : Pull(1, m)
    \/ \E m \in Msgs : LeaseExpires(m)
    \/ Handler(1)
    \/ \E path \in rendering : Render(path)
    \/ \E path \in LegacyVolatile : LegacyRemoves(path)

SpecLegacy == Init /\ [][NextLegacy]_vars

(***************************************************************************)
(* Resolution alone: one event, first delivery, over the events a          *)
(* publisher can send and the files the paper can have.                    *)
(***************************************************************************)
\* The empty choice, or one file at the path with one of the tags.
Opt(path, tags) == {{}} \cup {{<<path, File(t, 1)>>} : t \in tags}

ResolveFsPool ==
    {Files(tgz \cup gz \cup pdf \cup html \cup abs) :
        tgz \in Opt(FtpPath(Paper, ".tar.gz"), {"tar:src", "tar:removed"}),
        gz \in Opt(FtpPath(Paper, ".gz"), {"gz:tex", "gz:ignore"}),
        pdf \in Opt(FtpPath(Paper, ".pdf"), {"pdf"}),
        html \in Opt(FtpPath(Paper, ".html.gz"), {"html"}),
        abs \in Opt(FtpPath(Paper, ".abs"),
                    {"abs:", "abs:D", "abs:H", "abs:P", "abs:S", "abs:AD",
                     "abs:nosize"})}

ResolveVersions ==
    {VersionValue("int", 2), VersionValue("int", 3), VersionValue("str", 1),
     VersionValue("int", 0),
     VersionValue("float", 1), VersionValue("text", 0), VersionValue("missing", 0)}

ResolveEventPool ==
    {Event(type, Paper, version, src_ext, source_format) :
        type \in {"new", "rep", "wdr", "cross", "jref"},
        version \in ResolveVersions,
        src_ext \in {None, ".tar.gz", ".gz", ".pdf", ".html.gz"},
        source_format \in {None, "tex", "pdftex", "html"}}

InitResolve ==
    /\ fs \in ResolveFsPool
    /\ bucket = <<>>
    /\ \E e \in ResolveEventPool : payload = [m \in Msgs |-> e]
    /\ status = [m \in Msgs |-> IF m = 1 THEN "pending" ELSE "acked"]
    /\ deliveries = [m \in Msgs |-> 0]
    /\ WEBNODE_REQUEST_COUNT = 0
    /\ requests = <<>>
    /\ rendering = {}
    /\ failures = 0
    /\ synced = [desired |-> <<>>, store |-> <<>>, files |-> <<>>]
    /\ main = MainStart
    /\ http = NoRequest
    /\ listing = NoListing
    /\ h = [w \in Workers |-> IdleFrame]

\* The first delivery of the message, up to the resolved file set.
NextResolve ==
    \/ deliveries[1] = 0 /\ Pull(1, 1)
    \/ DecodeObject(1)
    \/ Resolve(1)

SpecResolve == InitResolve /\ [][NextResolve]_vars

(***************************************************************************)
(* Shutdown: signal_handler and the main thread of                         *)
(* submission_pull_messages, beside the consumer thread.                   *)
(***************************************************************************)
\* signal_handler, lines 678-681: SIGINT or SIGTERM arrives.
signal_handler ==
    /\ main.pc # "exited"
    /\ main' = [main EXCEPT !.running = FALSE]
    /\ UNCHANGED <<listing, http, fs, bucket, payload, status, deliveries,
                   WEBNODE_REQUEST_COUNT, requests, rendering, failures, synced, h>>

\* The streaming pull ends with an error of its own.
SubscriptionFails ==
    /\ main.pc # "exited"
    /\ main.future = "streaming"
    /\ main' = [main EXCEPT !.future = "failed"]
    /\ UNCHANGED <<listing, http, fs, bucket, payload, status, deliveries,
                   WEBNODE_REQUEST_COUNT, requests, rendering, failures, synced, h>>

\* Line 705: `while running` finds the flag cleared.
LoopExits ==
    /\ main.pc = "loop"
    /\ ~main.running
    /\ main' = [main EXCEPT !.pc = "cancel"]
    /\ UNCHANGED <<listing, http, fs, bucket, payload, status, deliveries,
                   WEBNODE_REQUEST_COUNT, requests, rendering, failures, synced, h>>

\* A main thread that goes on to wait with the streaming pull left open.
CancelSkipped ==
    /\ main.pc = "cancel"
    /\ main' = [main EXCEPT !.pc = "wait"]
    /\ UNCHANGED <<listing, http, fs, bucket, payload, status, deliveries,
                   WEBNODE_REQUEST_COUNT, requests, rendering, failures, synced, h>>

\* Line 707: streaming_pull_future.cancel().
Cancel ==
    /\ main.pc = "cancel"
    /\ main' = [main EXCEPT !.pc = "wait",
                            !.future = IF @ = "streaming" THEN "cancelled" ELSE @]
    /\ UNCHANGED <<listing, http, fs, bucket, payload, status, deliveries,
                   WEBNODE_REQUEST_COUNT, requests, rendering, failures, synced, h>>

\* Line 708: result(timeout=30) returns, the shutdown is complete.
WaitReturns ==
    /\ main.pc = "wait"
    /\ main.future = "cancelled"
    /\ main' = [main EXCEPT !.pc = "exited", !.future = "done", !.exit = "done"]
    /\ UNCHANGED <<listing, http, fs, bucket, payload, status, deliveries,
                   WEBNODE_REQUEST_COUNT, requests, rendering, failures, synced, h>>

\* Lines 709-711: the 30 seconds are over; cancel() again, then line 715.
WaitTimesOut ==
    /\ main.pc = "wait"
    /\ main' = [main EXCEPT !.pc = "exited", !.exit = "timeout",
                            !.future = IF @ = "streaming" THEN "cancelled" ELSE @]
    /\ UNCHANGED <<listing, http, fs, bucket, payload, status, deliveries,
                   WEBNODE_REQUEST_COUNT, requests, rendering, failures, synced, h>>

\* Lines 712-714: result() raises the error of the streaming pull.
WaitRaises ==
    /\ main.pc = "wait"
    /\ main.future = "failed"
    /\ main' = [main EXCEPT !.pc = "exited", !.exit = "error"]
    /\ UNCHANGED <<listing, http, fs, bucket, payload, status, deliveries,
                   WEBNODE_REQUEST_COUNT, requests, rendering, failures, synced, h>>

\* A step of the main thread once the flag is cleared.
MainStep == LoopExits \/ Cancel \/ WaitReturns \/ WaitTimesOut \/ WaitRaises

InitShutdown ==
    /\ fs = LegacyFiles
    /\ bucket = <<>>
    /\ payload = [m \in Msgs |-> RepTex]
    /\ status = [m \in Msgs |-> "pending"]
    /\ deliveries = [m \in Msgs |-> 0]
    /\ WEBNODE_REQUEST_COUNT = 0
    /\ requests = <<>>
    /\ rendering = {}
    /\ failures = 0
    /\ synced = [desired |-> <<>>, store |-> <<>>, files |-> <<>>]
    /\ main = MainStart
    /\ http = NoRequest
    /\ listing = NoListing
    /\ h = [w \in Workers |-> IdleFrame]

\* The consumer thread works until the process leaves
\* submission_pull_messages.
NextShutdown ==
    \/ \E m \in Msgs : main.pc # "exited" /\ Pull(1, m)
    \/ main.pc # "exited" /\ Handler(1)
    \/ \E path \in rendering : Render(path)
    \/ signal_handler
    \/ SubscriptionFails
    \/ LoopExits
    \/ Cancel
    \/ WaitReturns
    \/ WaitTimesOut
    \/ WaitRaises

\* The main thread is scheduled: sleep(0.2) and result(timeout=30) return.
SpecShutdown == InitShutdown /\ [][NextShutdown]_vars /\ WF_vars(MainStep)

(***************************************************************************)
(* Concurrency: the subscriber runs submission_callback on the threads of  *)
(* its executor, so two handlers are in the artifact stage side by side.   *)
(***************************************************************************)
InitConc ==
    /\ fs \in FsPool
    /\ bucket = <<>>
    /\ payload \in [Msgs -> {RepTex, RepPdf}]
    /\ status = [m \in Msgs |-> "pending"]
    /\ deliveries = [m \in Msgs |-> 0]
    /\ WEBNODE_REQUEST_COUNT = 0
    /\ requests = <<>>
    /\ rendering = {}
    /\ failures = 0
    /\ synced = [desired |-> <<>>, store |-> <<>>, files |-> <<>>]
    /\ main = MainStart
    /\ http = NoRequest
    /\ listing = NoListing
    /\ h = [w \in Workers |-> IdleFrame]

\* Each worker thread takes messages and runs the handler up to the end of
\* the artifact stage; the threads interleave between any two steps.
NextConc ==
    \/ \E w \in Workers, m \in Msgs : Pull(w, m)
    \/ \E w \in Workers : DecodeObject(w)
    \/ \E w \in Workers : Resolve(w)
    \/ \E w \in Workers : EnsureCheck(w)
    \/ \E w \in Workers : ReadCount(w)
    \/ \E w \in Workers : WriteCount(w)
    \/ \E w \in Workers : CallReturns(w)
    \/ \E w \in Workers : CallRaises(w)
    \/ \E w \in Workers : PostCheck(w)
    \/ \E path \in rendering : Render(path)

SpecConc == InitConc /\ [][NextConc]_vars

(***************************************************************************)
(* The download controller: get_dissimination_resp answers one request     *)
(* from the outcome of the article store's dissemination().                *)
(***************************************************************************)
\* A response: status, headers, and the template with the id it renders.
make_response(template, arxiv_id, code, headers) ==
    [status |-> code, headers |-> headers, template |-> template,
     arxiv_id |-> arxiv_id]

\* format_datetime(next_publish()): the time of the next announcement.
NextPublish == "next_publish"

Headers(pairs) == Files(pairs)

withdrawn(arxiv_id) ==
    make_response("pdf/withdrawn.html", arxiv_id, 200,
                  Headers({<<"Cache-Control", "max-age=31536000">>}))

unavailable(arxiv_id) ==
    make_response("pdf/unavaiable.html", arxiv_id, 500, <<>>)

not_pdf(arxiv_id) ==
    make_response("pdf/unavaiable.html", arxiv_id, 404, <<>>)

not_found(arxiv_id) ==
    make_response("pdf/not_found.html", arxiv_id, 404,
                  Headers({<<"Expires", NextPublish>>}))

bad_id(arxiv_id) ==
    make_response("pdf/bad_id.html", arxiv_id, 404, <<>>)

cannot_build_pdf(arxiv_id) ==
    make_response("pdf/cannot_build_pdf.html", arxiv_id, 404, <<>>)

\* abort(400): the exception is no IdentifierException and leaves the
\* function; the application answers 400.
Abort400 == make_response("400", None, 400, <<>>)

\* default_resp_fn without a Range header: the file, with the headers set
\* in the function itself.
default_resp_fn(arxiv_id) ==
    make_response("file", arxiv_id, 200,
                  Headers({<<"Access-Control-Allow-Origin", "*">>,
                           <<"Content-Type", "format">>}))

\* A requested id: its text, the part of it before a "/" (None without
\* one), whether Identifier accepts it, and the version it names (0 for
\* none).
RequestId(text, head, valid, v) ==
    [text |-> text, head |-> head, valid |-> valid, v |-> v]

\* Line 141: the archive, when given, goes in front of the id.
WithArchive(archive, id) ==
    IF Falsy(archive) THEN id
    ELSE [id EXCEPT !.text = archive \o "/" \o @, !.head = archive]

\* Lines 153-170, for the outcome of dissemination().
ResponseForItem(item, arxiv_id) ==
    CASE item \in {None, "VERSION_NOT_FOUND", "ARTICLE_NOT_FOUND"} -> not_found(arxiv_id)
      [] item \in {"WITHDRAWN", "NO_SOURCE"} -> withdrawn(arxiv_id)
      [] item = "UNAVAIABLE" -> unavailable(arxiv_id)
      [] item = "NOT_PDF" -> not_pdf(arxiv_id)
      [] item = "Deleted" -> bad_id(arxiv_id)
      [] item = "CannotBuildPdf" -> cannot_build_pdf(arxiv_id)
      [] item = "file missing" -> not_found(arxiv_id)
      [] OTHER -> default_resp_fn(arxiv_id)

\* Lines 141-151: the checks of the id, then the lookup.
DisseminationResp(id, item) ==
    IF Len(id.text) > 40 THEN Abort400
    ELSE IF id.head = "arxiv" THEN Abort400
    ELSE IF ~id.valid THEN bad_id(id.text)
    ELSE ResponseForItem(item, id.text)

get_dissimination_resp ==
    /\ http.state = "received"
    /\ http' = [http EXCEPT
           !.state = "answered",
           !.resp = DisseminationResp(WithArchive(http.archive, http.arxiv_id_str),
                                      http.item)]
    /\ UNCHANGED <<listing, fs, bucket, payload, status, deliveries,
                   WEBNODE_REQUEST_COUNT, requests, rendering, failures, synced,
                   main, h>>

\* The ids a client asks for.
RequestIds ==
    {RequestId("1208.9998", None, TRUE, 0), RequestId("1208.9998v1", None, TRUE, 1),
     RequestId("1208.9998v2", None, TRUE, 2), RequestId("1208.99", None, FALSE, 0),
     RequestId("arxiv/1208.9998v1", "arxiv", TRUE, 1),
     RequestId("1208.99980000000000000000000000000000000v1", None, FALSE, 1)}

\* What dissemination() returns: a status text, nothing, a Deleted or a
\* CannotBuildPdf object, or the tuple of a file that exists or does not.
DisseminationItems ==
    {None, "VERSION_NOT_FOUND", "ARTICLE_NOT_FOUND", "WITHDRAWN", "NO_SOURCE",
     "UNAVAIABLE", "NOT_PDF", "Deleted", "CannotBuildPdf", "file", "file missing"}

InitDissemination ==
    /\ \E format \in {"pdf", "e-print"}, id \in RequestIds,
          archive \in {None, "arxiv"}, item \in DisseminationItems :
            http = [state |-> "received", format |-> format, arxiv_id_str |-> id,
                    archive |-> archive, item |-> item, resp |-> None]
    /\ listing = NoListing
    /\ fs = <<>>
    /\ bucket = <<>>
    /\ payload = [m \in Msgs |-> [kind |-> "null"]]
    /\ status = [m \in Msgs |-> "acked"]
    /\ deliveries = [m \in Msgs |-> 0]
    /\ WEBNODE_REQUEST_COUNT = 0
    /\ requests = <<>>
    /\ rendering = {}
    /\ failures = 0
    /\ synced = [desired |-> <<>>, store |-> <<>>, files |-> <<>>]
    /\ main = MainStart
    /\ h = [w \in Workers |-> IdleFrame]

NextDissemination == get_dissimination_resp

SpecDissemination == InitDissemination /\ [][NextDissemination]_vars

(***************************************************************************)
(* The listing service on the file system (fs_listings.py).                *)
(***************************************************************************)
\* str(datetime.now().year)[2:], the last two characters of the year.
YearTail(year) ==
    IF year % 100 < 10 THEN "0" \o ToString(year % 100) ELSE ToString(year % 100)

\* _current_y_m_em: the current year as two characters, the current month
\* as a number, and the last month to look at for `year`.
current_y_m_em(now, year) ==
    LET currentYear == YearTail(now.year)
    IN  [currentYear |-> currentYear, currentMonth |-> now.month,
         end_month |-> IF currentYear = ToString(year) THEN now.month ELSE 12]

\* The transition between two neighbouring months of the padded list.
Transition(from_exists, to_exists) ==
    IF ~from_exists /\ to_exists THEN "on"
    ELSE IF from_exists /\ ~to_exists THEN "off"
    ELSE "no_change"

\* Mutant of _check_contiguous: any year with a month file passes.
check_contiguous_any(files) ==
    IF \E i \in 1..Len(files) : files[i].exists THEN "return"
    ELSE "No data for year"

\* _check_contiguous over the (month, exists) entries: returns, or the text
\* the raised exception starts with.
check_contiguous(files) ==
    LET from_state == <<[month |-> 0, exists |-> FALSE]>> \o files
        to_state == files \o <<[month |-> 13, exists |-> FALSE]>>
        transitions == [i \in 1..Len(from_state) |->
                            Transition(from_state[i].exists, to_state[i].exists)]
        changes == SelectSeq(transitions, LAMBDA dy : dy # "no_change")
    IN  IF changes = <<"on", "off">> THEN "return"
        ELSE IF \A i \in 1..Len(transitions) : transitions[i] = "no_change"
             THEN "No data for year"
             ELSE "Missing listing month files"

\* The files monthly_counts looks at: months 1..end_month and whether each
\* month's listing file is a file.
MonthFiles(call) ==
    LET end_month == current_y_m_em(call.now, call.year).end_month
    IN  [month \in 1..end_month |-> [month |-> month, exists |-> call.exists[month]]]

\* What monthly_counts gives: the exception of the check, or the response
\* with the counts of the months whose file exists and reads as a MonthCount.
MonthlyCounts(call) ==
    LET files == MonthFiles(call)
        checked == check_contiguous(files)
    IN  IF checked # "return"
        THEN [raised |-> checked, value |-> None, months |-> {}]
        ELSE [raised |-> None, value |-> "ListingCountResponse",
              months |-> IF call.response = "MonthCount"
                         THEN {i \in 1..Len(files) : files[i].exists} ELSE {}]

\* _modified_since: a file that is missing was not modified.
modified_since(if_modified_since, entry) ==
    entry.is_file /\ if_modified_since = "before the files"

\* Lines 182-183: the three conditions under which the loop raises.  The
\* current month is a number and str(month) a text, so they always differ.
MissingRaises(cur, entry) ==
    /\ ~entry.is_file
    /\ cur.currentYear # ToString(entry.year)
    /\ <<"int", cur.currentMonth>> # <<"str", ToString(entry.month)>>

\* The loop of _list_articles_by_period from entry i on.
RECURSIVE ListFrom(_, _, _)
ListFrom(call, cur, i) ==
    IF i > Len(call.yymmfiles)
    THEN [raised |-> None, value |-> "Listing", at |-> i]
    ELSE LET entry == call.yymmfiles[i]
         IN  IF MissingRaises(cur, entry)
             THEN [raised |-> "Missing monthly listing file", value |-> None, at |-> i]
             ELSE IF ~entry.is_file /\ call.missing_read = "raise"
             THEN [raised |-> "get_updates_from_list_file", value |-> None, at |-> i]
             ELSE IF call.response # "Listing"
             THEN [raised |-> None, value |-> call.response, at |-> i]
             ELSE ListFrom(call, cur, i + 1)

\* The largest year of the entries.
MaxYear(yymmfiles) ==
    CHOOSE yy \in {yymmfiles[i].year : i \in 1..Len(yymmfiles)} :
        \A i \in 1..Len(yymmfiles) : yymmfiles[i].year <= yy

\* _list_articles_by_period.
ListArticlesByPeriod(call) ==
    IF call.mode = "new" /\ Len(call.yymmfiles) > 1
    THEN [raised |-> "ValueError", value |-> None, at |-> 0]
    ELSE LET cur == current_y_m_em(call.now, MaxYear(call.yymmfiles))
         IN  IF /\ call.if_modified_since # None
                /\ \A i \in 1..Len(call.yymmfiles) :
                       ~modified_since(call.if_modified_since, call.yymmfiles[i])
             THEN [raised |-> None, value |-> "NotModifiedResponse", at |-> 0]
             ELSE ListFrom(call, cur, 1)

\* A call of monthly_counts runs to its end.
monthly_counts ==
    /\ listing.state = "called"
    /\ listing.op = "monthly_counts"
    /\ listing' = [listing EXCEPT !.state = "done", !.result = MonthlyCounts(listing)]
    /\ UNCHANGED <<http, fs, bucket, payload, status, deliveries,
                   WEBNODE_REQUEST_COUNT, requests, rendering, failures, synced,
                   main, h>>

\* A call of _list_articles_by_period runs to its end.
list_articles_by_period ==
    /\ listing.state = "called"
    /\ listing.op = "_list_articles_by_period"
    /\ listing' = [listing EXCEPT !.state = "done",
                                  !.result = ListArticlesByPeriod(listing)]
    /\ UNCHANGED <<http, fs, bucket, payload, status, deliveries,
                   WEBNODE_REQUEST_COUNT, requests, rendering, failures, synced,
                   main, h>>

\* The calls: the clock reads January or June 2024, a caller names a year
\* in two or in four digits, and an entry of yymmfiles is a (year, month,
\* file) with the file reduced to whether it is a file.
ListingCalls ==
    LET now == {[year |-> 2024, month |-> 1], [year |-> 2024, month |-> 6]}
        years == {23, 24, 2024}
        entries == [year : years, month : {1, 6}, is_file : BOOLEAN]
    IN  [state : {"called"}, op : {"monthly_counts"}, year : years,
         now : now, exists : [1..12 -> BOOLEAN],
         response : {"MonthCount", "Listing"}, result : {None}]
        \cup
        [state : {"called"}, op : {"_list_articles_by_period"},
         yymmfiles : {<<e>> : e \in entries}
                     \cup {<<e1, e2>> : e1 \in entries, e2 \in entries},
         now : now, mode : {"month", "new"},
         if_modified_since : {None, "before the files", "after the files"},
         response : {"Listing", "NotModifiedResponse"},
         missing_read : {"raise", "Listing"}, result : {None}]

InitListing ==
    /\ listing \in ListingCalls
    /\ http = NoRequest
    /\ fs = <<>>
    /\ bucket = <<>>
    /\ payload = [m \in Msgs |-> [kind |-> "null"]]
    /\ status = [m \in Msgs |-> "acked"]
    /\ deliveries = [m \in Msgs |-> 0]
    /\ WEBNODE_REQUEST_COUNT = 0
    /\ requests = <<>>
    /\ rendering = {}
    /\ failures = 0
    /\ synced = [desired |-> <<>>, store |-> <<>>, files |-> <<>>]
    /\ main = MainStart
    /\ h = [w \in Workers |-> IdleFrame]

NextListing == monthly_counts \/ list_articles_by_period

SpecListing == InitListing /\ [][NextListing]_vars

(***************************************************************************)
(* Properties.                                                             *)
(***************************************************************************)
\* The destination keys of the file set a handler reconciles.
ExpectedKeys(f) == {f.desired[n].gcp : n \in 1..Len(f.desired)}

\* The keys of a store that start with the prefix the handler lists.
KeysUnderPrefix(store, f) ==
    {k \in DOMAIN store : IsPrefix(ListedPrefix(f.st), k)}

\* The handler has returned from a delivery.
HasReturned(f) == f.pc = "idle" /\ f.msg # 0

Malformed(p) == p.kind \in {"bad_utf8", "bad_json", "null", "nonobject"}

\* C1: a handler that has acked its message has, in that attempt, decoded
\* it, resolved the file set, ensured the artifact, listed the prefix,
\* uploaded every expected entry and renamed every listed object that is
\* not expected, all without an error.
C1_AckOnlyAfterFullReconcile ==
    \A w \in Workers :
        h[w].acks > 0 =>
            /\ h[w].err = "none"
            /\ {"decode", "resolve", "ensure", "list", "uploads"} \subseteq h[w].stages
            /\ h[w].uploaded = ExpectedKeys(h[w])
            /\ h[w].todo = <<>>
            /\ h[w].renamed = KeysUnderPrefix(h[w].before, h[w]) \ ExpectedKeys(h[w])

\* C1 witness: an acked attempt that requested an artifact, transferred a
\* file and renamed an object.
C1_Witness ==
    \E w \in Workers :
        /\ h[w].acks > 0
        /\ h[w].sent > 0
        /\ h[w].transferred # {}
        /\ h[w].renamed # {}

\* C2: when the handler has returned from a delivery it has issued exactly
\* one ack or nack.
C2_SettledExactlyOnce ==
    \A w \in Workers : HasReturned(h[w]) => h[w].acks + h[w].nacks = 1

\* C3: a delivery whose payload is not UTF-8, not JSON or no JSON object
\* ends nacked, with nothing resolved, requested, listed, uploaded or
\* renamed.
C3_MalformedNackedAtOnce ==
    \A w \in Workers :
        (HasReturned(h[w]) /\ Malformed(payload[h[w].msg])) =>
            /\ h[w].nacks = 1
            /\ h[w].acks = 0
            /\ h[w].stages = {}
            /\ h[w].sent = 0
            /\ h[w].uploaded = {}
            /\ h[w].renamed = {}

\* C4: a message that cannot be decoded or parsed is not handed to the
\* handler again after it was rejected: its deliveries stay below the
\* number at which the broker of the model stops redelivering.
C4_MalformedNotRedelivered ==
    \A m \in Msgs :
        payload[m].kind \in {"bad_utf8", "bad_json"} => deliveries[m] < MaxDeliveries

PositiveInteger(v) == v.t \in {"int", "str"} /\ v.n > 0

\* C5: a delivery whose version is not a positive integer ends nacked
\* with InvalidVersion, and nothing was resolved for it.
C5_InvalidVersionRejected ==
    \A w \in Workers :
        (/\ HasReturned(h[w])
         /\ payload[h[w].msg].kind = "object"
         /\ ~PositiveInteger(payload[h[w].msg].version)) =>
            /\ h[w].nacks = 1
            /\ h[w].acks = 0
            /\ h[w].err = "InvalidVersion"
            /\ "resolve" \notin h[w].stages

\* sync_to_gcp has returned without an error in this attempt.
ReconcileDone(f) == f.pc = "ack" \/ (HasReturned(f) /\ f.acks > 0)

\* The keys the listed prefix held before the reconcile that are no
\* destination key of the expected set.
Unexpected(f) == KeysUnderPrefix(f.before, f) \ ExpectedKeys(f)

\* C6: after a successful reconcile every key K that was under the prefix
\* and is not expected is gone from its place, and trash/K holds the
\* object K held.
C6_TrashNotDelete ==
    \A w \in Workers :
        ReconcileDone(h[w]) =>
            \A K \in Unexpected(h[w]) :
                /\ K \notin DOMAIN bucket
                /\ trashed_blob(K) \in DOMAIN bucket
                /\ bucket[trashed_blob(K)] = h[w].before[K]

\* C6 witness: a successful reconcile that found two unexpected keys.
C6_Witness ==
    \E w \in Workers :
        /\ ReconcileDone(h[w])
        /\ Cardinality(Unexpected(h[w])) >= 2
        /\ \A K \in Unexpected(h[w]) : trashed_blob(K) \in DOMAIN bucket

\* C7: no step of the pipeline removes or replaces an object that is in
\* the trash namespace.
C7_TrashedObjectsKept ==
    [][\A k \in DOMAIN bucket :
          Head(k) = "trash" => (k \in DOMAIN bucket' /\ bucket'[k] = bucket[k])]_vars

\* The reconcile of this frame runs with the expected file set, the
\* store and the legacy files that the last acked reconcile left.
SecondRun(f) ==
    /\ f.pc \in {"upload", "trash", "ack"} \/ (HasReturned(f) /\ "list" \in f.stages)
    /\ synced.desired # <<>>
    /\ f.desired = synced.desired
    /\ f.before = synced.store
    /\ fs = synced.files

\* C8: a reconcile that runs with the same expected file set against the
\* store a successful reconcile left transfers nothing, renames nothing
\* and leaves the store as it was.
C8_ReconcileIdempotent ==
    \A w \in Workers :
        SecondRun(h[w]) =>
            /\ h[w].transferred = {}
            /\ h[w].renamed = {}
            /\ bucket = h[w].before

\* C8 witness: a second run over the store of a first run that moved
\* files and objects has completed and is acked.
C8_Witness ==
    \E w \in Workers :
        /\ SecondRun(h[w])
        /\ h[w].acks > 0
        /\ h[w].uploaded = ExpectedKeys(h[w])
        /\ \E k \in DOMAIN bucket : Head(k) = "trash"

\* C9: after a successful reconcile the keys under the listed prefix are
\* exactly the expected destination keys under that prefix.
C9_PrefixHoldsExpectedKeys ==
    \A w \in Workers :
        ReconcileDone(h[w]) =>
            KeysUnderPrefix(bucket, h[w]) =
                {k \in ExpectedKeys(h[w]) : IsPrefix(ListedPrefix(h[w].st), k)}

\* C9 witness: a successful reconcile that has put a key under the prefix
\* and has taken another away, with expected keys outside the prefix.
C9_Witness ==
    \E w \in Workers :
        /\ ReconcileDone(h[w])
        /\ \E k \in h[w].transferred : IsPrefix(ListedPrefix(h[w].st), k)
        /\ h[w].renamed # {}
        /\ \E k \in ExpectedKeys(h[w]) : ~IsPrefix(ListedPrefix(h[w].st), k)

\* The entries of a file set with the given type and status "current".
CurrentOf(files, type) ==
    {n \in 1..Len(files) : files[n].type = type /\ files[n].status = "current"}

\* The handler has resolved a file set for a submission that is neither
\* removed nor ignored and whose format is tex or pdftex.
LiveTex(f) ==
    /\ f.pc = "ensure"
    /\ ~is_removed(f.st, fs)
    /\ is_ignored(f.st, fs) = "no"
    /\ is_tex_submission(f.st)

\* C10: the file set resolved for a live tex or pdftex submission has
\* exactly one current submission entry, exactly one current pdf-cache
\* entry and no html-cache entry.
C10_TexFamilyEntries ==
    \A w \in Workers :
        LiveTex(h[w]) =>
            /\ Cardinality(CurrentOf(h[w].ensured, "submission")) = 1
            /\ Cardinality(CurrentOf(h[w].ensured, "pdf-cache")) = 1
            /\ \A n \in 1..Len(h[w].ensured) : h[w].ensured[n].type # "html-cache"

\* C10 witness: a replacement whose format pdftex comes from the sidecar,
\* resolved with the entries of the previous version in the set.
C10_Witness ==
    \E w \in Workers :
        /\ LiveTex(h[w])
        /\ h[w].data.source_format = None
        /\ h[w].st.source_format = "pdftex"
        /\ Len(h[w].ensured) = 5

\* The state __init__ builds for an event.
EventState(e) ==
    NewSubmissionFilesState(e.paper_id, e.version, e.type, e.src_ext, e.source_format)

\* The event is valid and its submission is neither removed nor ignored.
LiveEvent(e, files) ==
    /\ EventState(e).err = "ok"
    /\ ~is_removed(EventState(e), files)
    /\ is_ignored(EventState(e), files) = "no"

\* A live event whose source extension is known and whose format, as
\* maybe_update_metadata settles it, is html.
LiveHtmlEvent(e, files) ==
    /\ LiveEvent(e, files)
    /\ maybe_update_metadata(EventState(e), files).err = "ok"
    /\ ~Falsy(maybe_update_metadata(EventState(e), files).src_ext)
    /\ maybe_update_metadata(EventState(e), files).source_format = "html"

\* The handler is past the resolution of an object payload.
PastResolve(f) ==
    /\ f.msg # 0
    /\ f.pc \notin {"decode", "resolve"}
    /\ payload[f.msg].kind = "object"

\* C11: for a live submission whose format resolves to html, resolution
\* succeeds and the file set has a current html-cache entry and no
\* pdf-cache entry.
C11_HtmlEntries ==
    \A w \in Workers :
        (PastResolve(h[w]) /\ LiveHtmlEvent(payload[h[w].msg], fs)) =>
            /\ "resolve" \in h[w].stages
            /\ CurrentOf(h[w].ensured, "html-cache") # {}
            /\ \A n \in 1..Len(h[w].ensured) : h[w].ensured[n].type # "pdf-cache"

\* The handler holds a resolved file set.
HasFileSet(f) == f.pc = "ensure"

ObsoleteOf(files, type) ==
    {n \in 1..Len(files) : files[n].type = type /\ files[n].status = "obsolete"}

\* C12: the file set resolved for publish type new, cross or jref has no
\* entry with status obsolete.
C12_NoObsoleteForNew ==
    \A w \in Workers :
        (HasFileSet(h[w]) /\ h[w].data.type \in {"new", "cross", "jref"}) =>
            \A n \in 1..Len(h[w].ensured) : h[w].ensured[n].status # "obsolete"

\* C12 witness: the file set resolved for a new or cross event of
\* version 3 whose paper is a live tex submission.
C12_Witness ==
    \E w \in Workers :
        /\ HasFileSet(h[w])
        /\ h[w].data.type \in {"new", "cross"}
        /\ h[w].data.version = VersionValue("int", 3)
        /\ Len(h[w].ensured) = 3

\* max(1, v - 1) for the version v of an event.
PreviousVersion(v) == IF v.n - 1 < 1 THEN 1 ELSE v.n - 1

\* The path names version v of the paper in the versioned area.
NamesVersion(cit, paper_id, v) ==
    /\ Len(cit) >= 7
    /\ SubSeq(cit, 1, 7) = OrigPath(paper_id, v, "")

\* C13: the file set resolved for publish type rep or wdr with version v
\* has exactly one obsolete abstract entry and exactly one obsolete
\* submission entry, and the paths of both name version max(1, v - 1).
C13_ObsoleteNamesPreviousVersion ==
    \A w \in Workers :
        (HasFileSet(h[w]) /\ h[w].data.type \in {"rep", "wdr"}) =>
            /\ Cardinality(ObsoleteOf(h[w].ensured, "abstract")) = 1
            /\ Cardinality(ObsoleteOf(h[w].ensured, "submission")) = 1
            /\ \A n \in 1..Len(h[w].ensured) :
                   h[w].ensured[n].status = "obsolete" =>
                       NamesVersion(h[w].ensured[n].cit, h[w].data.paper_id,
                                    PreviousVersion(h[w].data.version))

\* C13 witness: a wdr event of version 3, whose previous version is 2.
C13_Witness ==
    \E w \in Workers :
        /\ HasFileSet(h[w])
        /\ h[w].data.type = "wdr"
        /\ h[w].data.version = VersionValue("int", 3)
        /\ \E n \in 1..Len(h[w].ensured) :
               /\ h[w].ensured[n].status = "obsolete"
               /\ h[w].ensured[n].cit = OrigPath(Paper, 2, ".abs")

\* The entry's type, source path and status.
Plain(entry) == Entry(entry.type, entry.cit, entry.status)

\* A rep event with src_ext .pdf on a live submission of format pdf.
RepPdfScenario(f) ==
    /\ HasFileSet(f)
    /\ f.data.type = "rep"
    /\ f.data.src_ext = ".pdf"
    /\ ~is_removed(f.st, fs)
    /\ is_ignored(f.st, fs) = "no"
    /\ f.st.source_format = "pdf"

\* C14: a resolved file set starts with one current abstract entry and
\* one current submission entry and has no other of either, no current
\* entry follows an obsolete one, and every entry has a destination key;
\* for a rep event with src_ext .pdf on a live pdf submission the set is
\* the four entries abstract, submission .pdf, previous abstract and
\* previous submission.
C14_FileSetShape ==
    \A w \in Workers :
        HasFileSet(h[w]) =>
            /\ Len(h[w].ensured) >= 2
            /\ CurrentOf(h[w].ensured, "abstract") = {1}
            /\ CurrentOf(h[w].ensured, "submission") = {2}
            /\ \A m, n \in 1..Len(h[w].ensured) :
                   (h[w].ensured[m].status = "obsolete" /\ m < n) =>
                       h[w].ensured[n].status = "obsolete"
            /\ \A n \in 1..Len(h[w].ensured) :
                   /\ h[w].ensured[n].gcp # <<>>
                   /\ h[w].ensured[n].gcp = path_to_bucket_key(h[w].ensured[n].cit).key
            /\ RepPdfScenario(h[w]) =>
                   /\ Len(h[w].ensured) = 4
                   /\ Plain(h[w].ensured[1]) =
                          Entry("abstract", FtpPath(h[w].data.paper_id, ".abs"), "current")
                   /\ Plain(h[w].ensured[2]) =
                          Entry("submission", FtpPath(h[w].data.paper_id, ".pdf"), "current")
                   /\ Plain(h[w].ensured[3]) =
                          Entry("abstract",
                                OrigPath(h[w].data.paper_id,
                                         PreviousVersion(h[w].data.version), ".abs"),
                                "obsolete")
                   /\ h[w].ensured[4].type = "submission"
                   /\ h[w].ensured[4].status = "obsolete"
                   /\ NamesVersion(h[w].ensured[4].cit, h[w].data.paper_id,
                                   PreviousVersion(h[w].data.version))

\* C14 witness: the rep event of version 2 with src_ext .pdf, its format
\* found from the extension, resolved to four entries.
C14_Witness ==
    \E w \in Workers :
        /\ RepPdfScenario(h[w])
        /\ h[w].data.version = VersionValue("int", 2)
        /\ h[w].data.source_format = None
        /\ Len(h[w].ensured) = 4

\* The paper's latest tarball has removed.txt among its names.
RemovedTarball(f) ==
    /\ Exists(fs, FtpPath(f.data.paper_id, ".tar.gz"))
    /\ fs[FtpPath(f.data.paper_id, ".tar.gz")].tag = "tar:removed"

\* The paper's .gz source starts with the ignore marker.
IgnoreMarker(f) ==
    /\ Exists(fs, FtpPath(f.data.paper_id, ".gz"))
    /\ fs[FtpPath(f.data.paper_id, ".gz")].tag = "gz:ignore"

NoCacheEntry(files) ==
    \A n \in 1..Len(files) : files[n].type \notin {"pdf-cache", "html-cache"}

\* C15: when the latest tarball has removed.txt among its names, the
\* current submission entry is the .tar.gz path whatever src_ext the
\* event has, also when the .gz source has the ignore marker, and the set
\* has no pdf-cache or html-cache entry.
C15_RemovedUsesTarball ==
    \A w \in Workers :
        (HasFileSet(h[w]) /\ RemovedTarball(h[w])) =>
            /\ \A n \in CurrentOf(h[w].ensured, "submission") :
                   h[w].ensured[n].cit = FtpPath(h[w].data.paper_id, ".tar.gz")
            /\ CurrentOf(h[w].ensured, "submission") # {}
            /\ NoCacheEntry(h[w].ensured)

\* C15 witness: a removed paper that also has an ignored .gz source,
\* resolved for an event that says src_ext .pdf and format tex.
C15_Witness ==
    \E w \in Workers :
        /\ HasFileSet(h[w])
        /\ RemovedTarball(h[w])
        /\ IgnoreMarker(h[w])
        /\ h[w].data.src_ext = ".pdf"
        /\ h[w].data.source_format = "tex"

\* C16: when the submission is not removed and its .gz source starts
\* with the ignore marker, the current submission entry is the .gz path
\* whatever src_ext the event has, and the set has no pdf-cache or
\* html-cache entry.
C16_IgnoredUsesGz ==
    \A w \in Workers :
        (HasFileSet(h[w]) /\ ~RemovedTarball(h[w]) /\ IgnoreMarker(h[w])) =>
            /\ \A n \in CurrentOf(h[w].ensured, "submission") :
                   h[w].ensured[n].cit = FtpPath(h[w].data.paper_id, ".gz")
            /\ CurrentOf(h[w].ensured, "submission") # {}
            /\ NoCacheEntry(h[w].ensured)

\* C16 witness: an ignored paper with a source tarball beside the .gz,
\* resolved for an event that says src_ext .tar.gz and format tex.
C16_Witness ==
    \E w \in Workers :
        /\ HasFileSet(h[w])
        /\ IgnoreMarker(h[w])
        /\ Exists(fs, FtpPath(h[w].data.paper_id, ".tar.gz"))
        /\ ~RemovedTarball(h[w])
        /\ h[w].data.src_ext = ".tar.gz"
        /\ h[w].data.source_format = "tex"

\* The legacy path of the artifact the handler's file set requires.
Artifact(f) == f.ensured[MinOf(CacheEntries(f.ensured))].cit

\* The handler is at the artifact check and the artifact is there.
ArtifactFound(f) ==
    /\ f.pc = "ensure"
    /\ CacheEntries(f.ensured) # {}
    /\ Exists(fs, Artifact(f))

\* C17: when the required artifact exists at its legacy path at the
\* check, the ensure stage ends at once with no request sent to a host
\* and the host-selection counter as it was.
C17_NoRequestWhenArtifactExists ==
    [][\A w \in Workers :
          (ArtifactFound(h[w]) /\ h'[w] # h[w]) =>
              /\ h'[w].pc = "expect"
              /\ h'[w].sent = 0
              /\ requests' = requests
              /\ rendering' = rendering
              /\ WEBNODE_REQUEST_COUNT' = WEBNODE_REQUEST_COUNT]_vars

\* C17 witness: the ensure stage of a tex submission is over, no request
\* was sent and the rendered PDF is at its path.
C17_Witness ==
    \E w \in Workers :
        /\ h[w].pc = "expect"
        /\ h[w].sent = 0
        /\ CacheEntries(h[w].ensured) # {}
        /\ Exists(fs, Artifact(h[w]))
        /\ requests = <<>>
        /\ WEBNODE_REQUEST_COUNT = 0

\* C18: when a generation request was issued, the step that ends the
\* wait for it decides by the artifact's existence alone: the stage
\* succeeds if the artifact exists and fails with MissingGeneratedFile if
\* it does not, whether the request returned or raised.
C18_PostCheckDecides ==
    [][\A w \in Workers :
          (h[w].pc \in {"call", "postcheck"} /\ h'[w].pc \notin {"call", "postcheck"}) =>
              IF Exists(fs, Artifact(h[w]))
              THEN h'[w].pc = "expect"
              ELSE h'[w].nacks = 1 /\ h'[w].err = "MissingGeneratedFile"]_vars

\* C19: a handler that sent a generation request and failed in the
\* ensure stage has failed with MissingGeneratedFile.
C19_TransportFailureIsMissingFile ==
    \A w \in Workers :
        (HasReturned(h[w]) /\ h[w].sent > 0 /\ "ensure" \notin h[w].stages) =>
            h[w].err = "MissingGeneratedFile"

\* C20: a handler that has decoded its message and has returned has
\* returned normally with the message settled once; when an error was
\* raised while resolving, ensuring or reconciling the message is nacked
\* and open for redelivery, and the consumer thread is free.
C20_NoStageFailureIsFatal ==
    \A w \in Workers :
        (HasReturned(h[w]) /\ "decode" \in h[w].stages) =>
            /\ h[w].outcome \in {"acked", "nacked"}
            /\ h[w].acks + h[w].nacks = 1
            /\ h[w].err # "none" =>
                   /\ h[w].nacks = 1
                   /\ status[h[w].msg] = "pending"

\* C20 witness: the consumer has acked a message after another message
\* failed in reconciliation and was nacked.
C20_Witness ==
    \E w \in Workers :
        /\ HasReturned(h[w])
        /\ h[w].acks = 1
        /\ failures > 0
        /\ \E m \in Msgs :
               /\ m # h[w].msg
               /\ payload[m].kind = "object"
               /\ deliveries[m] > 0
               /\ status[m] = "pending"

\* C21: one processing attempt sends at most one generation request, and
\* an attempt that ends with the artifact missing has sent one request
\* and has nacked the message, which is open for redelivery.
C21_NoInternalRetry ==
    \A w \in Workers :
        /\ h[w].sent <= 1
        /\ (HasReturned(h[w]) /\ h[w].err = "MissingGeneratedFile") =>
               /\ h[w].sent = 1
               /\ h[w].nacks = 1
               /\ status[h[w].msg] = "pending"

\* C21 witness: an attempt was nacked with the artifact missing after its
\* one request, and the artifact is still not there.
C21_Witness ==
    \E w \in Workers :
        /\ HasReturned(h[w])
        /\ h[w].err = "MissingGeneratedFile"
        /\ h[w].sent = 1
        /\ ~Exists(fs, Artifact(h[w]))

\* The handler has issued a list, an upload or a rename to the store, or
\* is about to.
TouchesStore(f) ==
    \/ f.pc \in {"sync", "upload", "trash", "ack"}
    \/ "list" \in f.stages
    \/ f.uploaded # {}
    \/ f.renamed # {}

\* C22: a handler issues a list, an upload or a rename only when, in the
\* same attempt, decoding, resolution and artifact ensuring succeeded.
C22_StoreOnlyAfterEnsure ==
    \A w \in Workers :
        TouchesStore(h[w]) =>
            /\ {"decode", "resolve", "ensure"} \subseteq h[w].stages
            /\ h[w].ensured # <<>>
            /\ CacheEntries(h[w].ensured) # {} => Exists(fs, Artifact(h[w]))

\* C22 witness: a handler that had to request the artifact is renaming
\* objects after its uploads.
C22_Witness ==
    \E w \in Workers :
        /\ h[w].pc = "trash"
        /\ h[w].sent = 1
        /\ h[w].uploaded # {}
        /\ h[w].renamed # {}

\* C23: once a termination signal has cleared the running flag it stays
\* cleared, no message is pulled after the main thread has cancelled the
\* streaming pull, and submission_pull_messages returns, also when the
\* wait times out or the streaming pull has failed.
C23_GracefulShutdown ==
    /\ [][~main.running => ~main'.running]_vars
    /\ [][main.pc \in {"wait", "exited"} => deliveries' = deliveries]_vars
    /\ ~main.running ~> main.pc = "exited"

\* C23 witness: submission_pull_messages has returned after a signal
\* while a message was in flight and another was never pulled.
C23_Witness ==
    /\ main.pc = "exited"
    /\ ~main.running
    /\ \E w \in Workers : h[w].pc \notin {"idle", "decode"}
    /\ \E m \in Msgs : deliveries[m] = 0

\* C24: the round-robin counter loses no update: after k generation
\* requests it stands at k modulo the number of hosts, and two requests
\* that are in flight together were not given their host from the same
\* counter value.
C24_CounterLosesNoUpdate ==
    /\ WEBNODE_REQUEST_COUNT = Len(requests) % n_webnodes
    /\ \A v, w \in Workers :
          (v # w /\ h[v].pc = "call" /\ h[w].pc = "call") =>
              h[v].my_tag # h[w].my_tag

\* An event with the fields of the schema: a publish type, a paper id and
\* a positive integer version.
WellFormed(p) ==
    /\ p.kind = "object"
    /\ p.type \in {"new", "rep", "wdr", "cross", "jref"}
    /\ p.paper_id # None
    /\ PositiveInteger(p.version)

\* The failures that a later delivery need not meet again: a store
\* operation failed, or the artifact was not there or could not be asked
\* for.
PassingErrors ==
    {"StorageError", "NotFound", "MissingGeneratedFile", "RequestException"}

\* C25: a delivery of a well-formed event ends with the message acked and
\* the store under the paper's prefix holding exactly the expected keys,
\* or it fails for a reason that passes (a store operation failed, the
\* artifact was missing, the request failed), so that redelivery converges.
C25_RedeliveryConverges ==
    \A w \in Workers :
        (HasReturned(h[w]) /\ WellFormed(payload[h[w].msg])) =>
            IF h[w].acks = 1
            THEN KeysUnderPrefix(bucket, h[w]) =
                     {k \in ExpectedKeys(h[w]) : IsPrefix(ListedPrefix(h[w].st), k)}
            ELSE h[w].err \in PassingErrors

\* The id passes the checks of lines 143-147 and is looked up.
Accepted(id) == Len(id.text) <= 40 /\ id.head # "arxiv" /\ id.valid

\* C26: a request whose id parses and whose dissemination outcome is
\* nothing, VERSION_NOT_FOUND, ARTICLE_NOT_FOUND, WITHDRAWN or NO_SOURCE is
\* answered with status 404, a page rendered for the requested id and an
\* Expires or Cache-Control header; for NO_SOURCE and an id with a
\* version the Cache-Control header is max-age=31536000.
C26_NoSourceIs404 ==
    (/\ http.state = "answered"
     /\ Accepted(WithArchive(http.archive, http.arxiv_id_str))
     /\ http.item \in {None, "VERSION_NOT_FOUND", "ARTICLE_NOT_FOUND",
                       "WITHDRAWN", "NO_SOURCE"}) =>
        /\ http.resp.status = 404
        /\ http.resp.arxiv_id = http.arxiv_id_str.text
        /\ DOMAIN http.resp.headers \cap {"Expires", "Cache-Control"} # {}
        /\ (http.item = "NO_SOURCE" /\ http.arxiv_id_str.v > 0) =>
               /\ "Cache-Control" \in DOMAIN http.resp.headers
               /\ http.resp.headers["Cache-Control"] = "max-age=31536000"

\* The paper's latest source with the extension is on the legacy filesystem.
Latest(dotext) == Exists(fs, FtpPath(Paper, dotext))

\* C27: for a live submission, when the event carries no src_ext the
\* resolved src_ext is the first of .tar.gz, .gz, .pdf, .html.gz whose
\* latest source path exists; when the event carries one, the resolved
\* src_ext is the event's.
C27_SrcExtProbe ==
    \A w \in Workers :
        (HasFileSet(h[w]) /\ LiveEvent(h[w].data, fs)) =>
            IF Falsy(h[w].data.src_ext)
            THEN /\ Latest(h[w].st.src_ext)
                 /\ h[w].st.src_ext =
                        IF Latest(".tar.gz") THEN ".tar.gz"
                        ELSE IF Latest(".gz") THEN ".gz"
                        ELSE IF Latest(".pdf") THEN ".pdf"
                        ELSE ".html.gz"
            ELSE h[w].st.src_ext = h[w].data.src_ext

\* C27 witness: an event without src_ext for a paper with a .pdf and an
\* .html.gz and neither tarball nor .gz, resolved to .pdf.
C27_Witness ==
    \E w \in Workers :
        /\ HasFileSet(h[w])
        /\ LiveEvent(h[w].data, fs)
        /\ h[w].data.src_ext = None
        /\ ~Latest(".tar.gz") /\ ~Latest(".gz")
        /\ Latest(".pdf") /\ Latest(".html.gz")
        /\ h[w].st.src_ext = ".pdf"

\* What the paper's sidecar holds, "missing" when there is none.
Sidecar == IF Latest(".abs") THEN fs[FtpPath(Paper, ".abs")].tag ELSE "missing"

\* The format the source-type code of the sidecar's last Date line names.
SidecarFormat ==
    CASE Sidecar = "abs:D" -> "pdftex"
      [] Sidecar = "abs:H" -> "html"
      [] Sidecar = "abs:P" -> "ps"
      [] OTHER -> None

\* C28: for a live submission resolved from an event without source_format,
\* the resolved format is the one the sidecar names; when the sidecar names
\* none it is the extension's: tex for .tar.gz and .gz, pdf for .pdf, html
\* for .html.gz.
C28_SidecarFormatWins ==
    \A w \in Workers :
        (HasFileSet(h[w]) /\ LiveEvent(h[w].data, fs)
            /\ Falsy(h[w].data.source_format)) =>
            IF SidecarFormat # None
            THEN h[w].st.source_format = SidecarFormat
            ELSE h[w].st.source_format =
                     CASE h[w].st.src_ext = ".pdf" -> "pdf"
                       [] h[w].st.src_ext = ".html.gz" -> "html"
                       [] OTHER -> "tex"

\* C29: for a live submission with a src_ext of .tar.gz, .gz or .pdf and
\* no source_format in the event, whose sidecar's source-type code has S
\* or A, or whose last Date line has no source-type code, resolution
\* succeeds with a format.
C29_FlagsDoNotFail ==
    \A w \in Workers :
        (/\ PastResolve(h[w])
         /\ LiveEvent(payload[h[w].msg], fs)
         /\ payload[h[w].msg].src_ext \in {".tar.gz", ".gz", ".pdf"}
         /\ Falsy(payload[h[w].msg].source_format)
         /\ Sidecar \in {"abs:S", "abs:AD", "abs:nosize"}) =>
            /\ "resolve" \in h[w].stages
            /\ ~Falsy(h[w].st.source_format)

\* The previous version's source with the extension is on the legacy
\* filesystem.
Previous(f, dotext) ==
    Exists(fs, OrigPath(Paper, PreviousVersion(f.data.version), dotext))

\* The last component of a path.
Last(cit) == cit[Len(cit)]

\* C30: in the file set resolved for a rep or wdr event the obsolete
\* submission entry ends in the first of .tar.gz, .gz, .pdf, .html.gz whose
\* previous-version path exists, or in the resolved src_ext when none
\* exists, and in every case in one of the four extensions.
C30_ObsoleteExtension ==
    \A w \in Workers :
        (HasFileSet(h[w]) /\ h[w].data.type \in {"rep", "wdr"}) =>
            \A n \in ObsoleteOf(h[w].ensured, "submission") :
                /\ Last(h[w].ensured[n].cit) =
                       IF Previous(h[w], ".tar.gz") THEN ".tar.gz"
                       ELSE IF Previous(h[w], ".gz") THEN ".gz"
                       ELSE IF Previous(h[w], ".pdf") THEN ".pdf"
                       ELSE IF Previous(h[w], ".html.gz") THEN ".html.gz"
                       ELSE h[w].st.src_ext
                /\ Last(h[w].ensured[n].cit) \in SeqToSet(submission_exts)

\* The current entries get_expected_files builds for the event, before
\* the destination keys are computed.
BuiltEntries(e) == CurrentFiles(EventState(e), fs)

\* C31: in the entries built for a live submission every pdf-cache entry
\* has the rendered-PDF path of the versioned paper id as its source path,
\* every html-cache entry the rendered-HTML directory path, and every
\* source path is a path under a root of the legacy filesystem.
C31_CacheEntryPaths ==
    \A w \in Workers :
        (/\ PastResolve(h[w])
         /\ LiveEvent(payload[h[w].msg], fs)
         /\ BuiltEntries(payload[h[w].msg]).err = "ok") =>
            \A n \in 1..Len(BuiltEntries(payload[h[w].msg]).files) :
                /\ BuiltEntries(payload[h[w].msg]).files[n].type = "pdf-cache" =>
                       BuiltEntries(payload[h[w].msg]).files[n].cit =
                           ps_cache_pdf_file(EventState(payload[h[w].msg]))
                /\ BuiltEntries(payload[h[w].msg]).files[n].type = "html-cache" =>
                       BuiltEntries(payload[h[w].msg]).files[n].cit =
                           html_file(EventState(payload[h[w].msg]))
                /\ Head(BuiltEntries(payload[h[w].msg]).files[n].cit)
                       \in {Head(FTP_PREFIX), Head(PS_CACHE_PREFIX)}

\* The key names a historical object of the handler's paper: a version of
\* the paper in the versioned area.
HistoricalKey(k, f) ==
    IsPrefix(Tail(versioned_parent(f.st)) \o <<f.st.xid.filename>>, k)

\* C32: after a successful reconcile every object that was in the store
\* as a current or historical object of the paper and is not expected has
\* been moved to trash.
C32_PrefixCoversHistory ==
    \A w \in Workers :
        ReconcileDone(h[w]) =>
            \A k \in DOMAIN h[w].before :
                (/\ IsPrefix(ListedPrefix(h[w].st), k) \/ HistoricalKey(k, h[w])
                 /\ k \notin ExpectedKeys(h[w])) =>
                    /\ k \in h[w].renamed
                    /\ trashed_blob(k) \in DOMAIN bucket

\* C33: with one worker the k-th generation request goes to the k-th host
\* of the list in cyclic order, no two consecutive requests go to the same
\* host, the counter is in 0..n-1 and the index a handler selects with is
\* an index of the list.
C33_RoundRobin ==
    /\ WEBNODE_REQUEST_COUNT \in 0..(n_webnodes - 1)
    /\ \A k \in 1..Len(requests) :
           requests[k] = CONCURRENCY_PER_WEBNODE[((k - 1) % n_webnodes) + 1]
    /\ \A k \in 1..(Len(requests) - 1) : requests[k] # requests[k + 1]
    /\ \A w \in Workers : h[w].my_tag \in 0..(n_webnodes - 1)

\* C33 witness: more requests than hosts were sent, the last one to the
\* first host again.
C33_Witness ==
    /\ Len(requests) > n_webnodes
    /\ requests[Len(requests)] = CONCURRENCY_PER_WEBNODE[1]
    /\ WEBNODE_REQUEST_COUNT = 1

\* The handler is about to ack while another message, a well-formed event
\* of a lower version, is acked, and the store as the handler listed it
\* held under the prefix the keys of the last acked file set.
AfterOlderEvent(f) ==
    /\ f.pc = "ack"
    /\ \E m \in Msgs :
          /\ m # f.msg
          /\ status[m] = "acked"
          /\ WellFormed(payload[m])
          /\ payload[m].version.n < f.data.version.n
    /\ synced.desired # <<>>
    /\ KeysUnderPrefix(f.before, f) =
           {synced.desired[n].gcp : n \in 1..Len(synced.desired)}
               \cap {k \in DOMAIN f.before : IsPrefix(ListedPrefix(f.st), k)}
    /\ KeysUnderPrefix(f.before, f) # {}

C35_TrashRepeatable ==
    \A w \in Workers :
        /\ (HasReturned(h[w]) /\ h[w].renamed # {}) =>
               h[w].err \in {"none", "StorageError"}
        /\ ReconcileDone(h[w]) =>
               \A k \in Unexpected(h[w]) :
                   /\ trashed_blob(k) \in DOMAIN bucket
                   /\ k \notin DOMAIN bucket


\* The months of the call whose listing file exists, among those looked at.
ExistingMonths(call) ==
    {m \in 1..current_y_m_em(call.now, call.year).end_month : call.exists[m]}

\* One non-empty block of months without a gap.
OneBlock(months) ==
    /\ months # {}
    /\ \A a \in months, b \in months : \A c \in a..b : c \in months

CountsDone == listing.state = "done" /\ listing.op = "monthly_counts"

\* C36: the check of monthly_counts passes exactly when the month files that
\* exist form one non-empty block of months without a gap; it raises "No data
\* for year" when no month file exists and "Missing listing month files"
\* when the existing months have a gap.
C36_ContiguousMonths ==
    CountsDone =>
        LET months == ExistingMonths(listing)
        IN  /\ (listing.result.raised = None) <=> OneBlock(months)
            /\ (listing.result.raised = "No data for year") <=> (months = {})
            /\ (listing.result.raised = "Missing listing month files")
                   <=> (months # {} /\ ~OneBlock(months))

\* A year whose files run from March to May passed the check, and a year
\* with a gap was refused.
C36_Witness ==
    /\ CountsDone
    /\ ExistingMonths(listing) = {3, 4, 5}
    /\ Len(MonthFiles(listing)) = 12
    /\ listing.result.raised = None
    /\ listing.result.months = {3, 4, 5}

ListDone == listing.state = "done" /\ listing.op = "_list_articles_by_period"

\* The entry names the current year, in two or in four digits, and the
\* current month.
CurrentMonthEntry(entry, now) ==
    /\ entry.year \in {now.year, now.year % 100}
    /\ entry.month = now.month

\* The entry's file is missing and it is not the current month's.
MissingUnaccepted(entry, now) == ~entry.is_file /\ ~CurrentMonthEntry(entry, now)

\* C37: once the loop over the requested months runs, it raises "Missing
\* monthly listing file" at an entry exactly when that entry's file is
\* missing and the entry is not the current year and month.
C37_MissingFileRaises ==
    (ListDone /\ listing.result.at >= 1) =>
        \A j \in 1..Len(listing.yymmfiles) :
            j <= listing.result.at =>
                (MissingUnaccepted(listing.yymmfiles[j], listing.now)
                    <=> (/\ j = listing.result.at
                         /\ listing.result.raised = "Missing monthly listing file"))

\* The handler is inside the loops of sync_to_gcp.
Reconciling(f) == f.pc \in {"upload", "trash"}

\* The keys the handler has renamed were in its listing, are no
\* destination key of its expected set, do not belong to another paper
\* and are not in the trash namespace.
RenamedInScope(f) ==
    /\ f.renamed \subseteq KeysUnderPrefix(f.before, f) \ ExpectedKeys(f)
    /\ \A k \in f.renamed :
           /\ Head(k) # "trash"
           /\ \A n \in 1..Len(k) : k[n] # OtherPaper

\* C38: a reconcile renames only keys of its own listing that are no
\* expected key, never a key of another paper or of the trash namespace,
\* and every object outside the listed prefix that is no expected key
\* stays as it is.
C38_ReconcileScope ==
    [][\A w \in Workers :
          Reconciling(h[w]) =>
              /\ RenamedInScope(h'[w])
              /\ \A k \in DOMAIN bucket :
                     (~IsPrefix(ListedPrefix(h[w].st), k) /\ k \notin ExpectedKeys(h[w]))
                         => (k \in DOMAIN bucket' /\ bucket'[k] = bucket[k])]_vars

\* The handler holds the file set that sync_to_gcp reconciles.
HasReconcileSet(f) == f.pc \in {"upload", "trash", "ack"}

\* C39: in one attempt the file set whose artifacts were ensured, the file
\* set checked for emptiness and the file set the reconcile uploads are
\* the same, also when legacy files change meanwhile.
C39_SingleFileSet ==
    \A w \in Workers :
        HasReconcileSet(h[w]) =>
            /\ h[w].ensured = h[w].checked
            /\ h[w].checked = h[w].desired

\* The keys the store held under the prefix before the event that are no
\* destination key of the frame's expected set.
UnexpectedAtFirst(f) ==
    {K \in DOMAIN DuplicateStore : IsPrefix(ListedPrefix(f.st), K)} \ ExpectedKeys(f)

\* The legacy file behind a destination key of the frame's expected set.
LocalOf(f, k) == f.desired[CHOOSE n \in 1..Len(f.desired) : f.desired[n].gcp = k].cit

\* The store after the event is processed once: the expected keys hold the
\* legacy files, every unexpected key K of the prefix is at trash/K, and
\* the other objects are as they were.
ProcessedOnce(f) ==
    LET unexpected == UnexpectedAtFirst(f)
        trashed == {trashed_blob(K) : K \in unexpected}
    IN  [k \in ((DOMAIN DuplicateStore \ unexpected) \cup ExpectedKeys(f)) \cup trashed |->
            IF k \in ExpectedKeys(f) THEN fs[LocalOf(f, k)]
            ELSE IF k \in trashed THEN DuplicateStore[Tail(k)]
            ELSE DuplicateStore[k]]

BothAcked == \A m \in Msgs : status[m] = "acked"

\* C40: with two workers on duplicate deliveries of one event, every key
\* that was under the prefix is in the store at K or at trash/K at every
\* moment, an unexpected one with the object it held, and when both
\* deliveries are acked the store is what one processing of the event
\* leaves.
C40_DuplicatesConverge ==
    /\ \A K \in DOMAIN DuplicateStore :
           IsPrefix(Tail(FtpPath(Paper, "")), K) =>
               \/ K \in DOMAIN bucket
               \/ trashed_blob(K) \in DOMAIN bucket
    /\ \A w \in Workers :
           h[w].desired # <<>> =>
               \A K \in UnexpectedAtFirst(h[w]) :
                   \/ K \in DOMAIN bucket /\ bucket[K] = DuplicateStore[K]
                   \/ /\ trashed_blob(K) \in DOMAIN bucket
                      /\ bucket[trashed_blob(K)] = DuplicateStore[K]
    /\ BothAcked =>
           \A w \in Workers : h[w].desired # <<>> => bucket = ProcessedOnce(h[w])

\* Both deliveries are acked by different workers, one of them after a
\* redelivery that no injected failure caused: the workers met at an
\* object.
C40_Witness ==
    /\ BothAcked
    /\ failures = 0
    /\ \E m \in Msgs : deliveries[m] = 2
    /\ h[1].msg # h[2].msg /\ h[1].msg # 0 /\ h[2].msg # 0
    /\ \E w \in Workers : h[w].renamed # {}

====
